---------------------------- MODULE Spec2Model ----------------------------
(***************************************************************************)
(* Model of the call session controller (class CallEntity) of the web     *)
(* client: the call state machine, the participant list, the group-check  *)
(* heartbeat and the state (ring) timeout.                                 *)
(*                                                                         *)
(* The JavaScript event loop is modelled by one action per macrotask: an   *)
(* operation invoked from outside, a timer callback, or the completion of  *)
(* a network request.  Promise continuations that need no I/O (microtasks)*)
(* run inside the action that made them runnable.                         *)
(*                                                                         *)
(* The fields of the entity are the variables.  Every method is an        *)
(* operator from an entity record (Cur) to an entity record; an action    *)
(* applies the operators and writes the record back (Commit).             *)
(***************************************************************************)
EXTENDS Integers, Sequences, FiniteSets, TLC

VARIABLES
  state,               \* this.state
  previousState,       \* this.previousState
  isGroup,             \* this.isGroup
  isConnected,         \* this.isConnected
  wasConnected,        \* this.wasConnected
  selfClientJoined,    \* this.selfClientJoined
  selfUserJoined,      \* this.selfUserJoined
  terminationReason,   \* this.terminationReason
  sessionId,           \* this.sessionId
  participants,        \* this.participants: sequence of participant entities
  groupCheckTimeoutId, \* this.groupCheckTimeoutId: handle of the heartbeat timer
  stateTimeout,        \* this.stateTimeout: handle of the state (ring) timer
  callTimerInterval,   \* this.callTimerInterval: handle of the duration interval
  groupCheckTimer,     \* delay and callback argument of the heartbeat timer armed last
  remoteMediaType,     \* this.remoteMediaType
  timers,              \* timers pending in the event loop, per kind
  ringing,             \* ring tones playing in a loop
  pendingAdds,         \* _addParticipant calls waiting for get_user_by_id
  pendingLeaves,       \* leaveCall calls waiting for their hangup/cancel sends
  deleteCount,         \* how often callingRepository.deleteCall was called
  eventCount,          \* how many deactivation events were injected
  injected,            \* history: reason of the deactivation event injected by the last step
  everConnected        \* history: isConnected has been true at least once

callVars == <<state, previousState, isGroup, isConnected, wasConnected,
              selfClientJoined, selfUserJoined, terminationReason, sessionId,
              participants, groupCheckTimeoutId, stateTimeout, callTimerInterval,
              groupCheckTimer, remoteMediaType, timers, ringing, pendingAdds, pendingLeaves,
              deleteCount, eventCount, injected, everConnected>>

(* State of the backend client (BackendClient).  The call entity and the  *)
(* backend client do not share fields; each specification below moves one *)
(* of them and leaves the other as its constructor left it.               *)
VARIABLES
  connectivityTimeout, \* handle of the _checkStatus timer: "undefined", "pending", or
                       \* "fired" (the handle is kept while the status request is in flight)
  connectivityQueue,   \* PromiseQueue of executeOnConnectivity: [waiting, paused]
  requestQueue,        \* PromiseQueue of the requests: [queue, paused]
  queueState,          \* QUEUE_STATE observable
  queueTimeout,        \* handle of the unblock timer: "undefined", "pending", "fired"
  accessToken,         \* "" or "token"
  configs,             \* the request configurations given to sendRequest, by request
  promises,            \* the promise sendRequest returned, by request: "pending", "settled"
  inFlight             \* requests whose AJAX call has not completed

backendVars == <<connectivityTimeout, connectivityQueue, requestQueue, queueState,
                 queueTimeout, accessToken, configs, promises, inFlight>>

(* State the verification state handler (ConversationVerificationState-  *)
(* Handler) works on: the conversations of the conversation repository.   *)
VARIABLES
  conversations        \* by conversation id: [verification_state, is_verified,
                       \* participating_user_ids, removed_from_conversation]

verificationVars == <<conversations>>

(* State of the store the client actions (ClientAction) are dispatched to *)
VARIABLES
  storeActions,        \* store.getActions(): the actions dispatched so far
  dispatchedBy,        \* history: for each of them, the thunk that dispatched it
  thunks               \* the thunks dispatched so far: [thunk, clientId, api, promise]

clientVars == <<storeActions, dispatchedBy, thunks>>

vars == <<callVars, backendVars, verificationVars, clientVars>>

---------------------------------------------------------------------------
(* Bounds of the model *)

\* most participant entities of a call, counting those being added
MaxParticipants == 2
\* most leaveCall calls waiting for their sends at once
MaxPendingLeaves == 1
\* the history counters and the timer counts saturate here
MaxCount == 2

---------------------------------------------------------------------------
(* Enumerations *)

UNKNOWN == "UNKNOWN"
INCOMING == "INCOMING"
OUTGOING == "OUTGOING"
CONNECTING == "CONNECTING"
ONGOING == "ONGOING"
DISCONNECTING == "DISCONNECTING"
REJECTED == "REJECTED"
ENDED == "ENDED"

CALL_STATE == {UNKNOWN, INCOMING, OUTGOING, CONNECTING, ONGOING,
               DISCONNECTING, REJECTED, ENDED}

\* CALL_STATE_GROUP.CAN_CONNECT: states from which joinCall connects
CAN_CONNECT == {INCOMING, OUTGOING}
\* CALL_STATE_GROUP.UNANSWERED
UNANSWERED == {INCOMING, OUTGOING}

NoReason == "none"
SELF_USER == "SELF_USER"
OTHER_USER == "OTHER_USER"
GROUP_CHECK == "GROUP_CHECK"
TIMEOUT == "TIMEOUT"
MISSED == "MISSED"
COMPLETED == "COMPLETED"

SelfId == "self"
RemoteUsers == {"u1", "u2"}

Inc(n) == IF n < MaxCount THEN n + 1 ELSE n
Dec(n) == IF n > 0 THEN n - 1 ELSE 0

---------------------------------------------------------------------------
(* The entity as a record.  Four fields are not state: isUserAway is      *)
(* what selfUser.availability() === AvailabilityType.AWAY gives while the *)
(* operation runs, random is what the random number generator adds to the *)
(* minimum while it runs, log collects what the operation calls and       *)
(* sends, and ret is what it resolves with.                               *)

Cur ==
  [state |-> state, previousState |-> previousState, isGroup |-> isGroup,
   isConnected |-> isConnected, wasConnected |-> wasConnected,
   selfClientJoined |-> selfClientJoined, selfUserJoined |-> selfUserJoined,
   terminationReason |-> terminationReason, sessionId |-> sessionId,
   participants |-> participants, groupCheckTimeoutId |-> groupCheckTimeoutId,
   stateTimeout |-> stateTimeout, callTimerInterval |-> callTimerInterval,
   groupCheckTimer |-> groupCheckTimer, remoteMediaType |-> remoteMediaType,
   timers |-> timers, ringing |-> ringing,
   pendingAdds |-> pendingAdds, pendingLeaves |-> pendingLeaves,
   deleteCount |-> deleteCount, eventCount |-> eventCount,
   injected |-> "none", everConnected |-> everConnected,
   isUserAway |-> FALSE, random |-> 0, log |-> <<>>, ret |-> FALSE]

Commit(c) ==
  /\ state' = c.state
  /\ previousState' = c.previousState
  /\ isGroup' = c.isGroup
  /\ isConnected' = c.isConnected
  /\ wasConnected' = c.wasConnected
  /\ selfClientJoined' = c.selfClientJoined
  /\ selfUserJoined' = c.selfUserJoined
  /\ terminationReason' = c.terminationReason
  /\ sessionId' = c.sessionId
  /\ participants' = c.participants
  /\ groupCheckTimeoutId' = c.groupCheckTimeoutId
  /\ stateTimeout' = c.stateTimeout
  /\ callTimerInterval' = c.callTimerInterval
  /\ groupCheckTimer' = c.groupCheckTimer
  /\ remoteMediaType' = c.remoteMediaType
  /\ timers' = c.timers
  /\ ringing' = c.ringing
  /\ pendingAdds' = c.pendingAdds
  /\ pendingLeaves' = c.pendingLeaves
  /\ deleteCount' = c.deleteCount
  /\ eventCount' = c.eventCount
  /\ injected' = c.injected
  /\ everConnected' = (c.everConnected \/ c.isConnected)
  /\ UNCHANGED backendVars
  /\ UNCHANGED verificationVars
  /\ UNCHANGED clientVars

\* an entry of the log: what is called or sent, and the call state at that moment
Log(c, e) == [c EXCEPT !.log = Append(@, [at |-> c.state, e |-> e])]

Logged(c, e) == \E i \in DOMAIN c.log : c.log[i].e = e

\* callingRepository.sendCallMessage: hands a call message to the transport
sendCallMessage(c, type, to) == Log(c, <<"send", type, to>>)

---------------------------------------------------------------------------
(* Timers and ring tones *)

\* CallEntity.CONFIG.GROUP_CHECK, in seconds
ACTIVITY_TIMEOUT == 2 * 60
MAXIMUM_TIMEOUT == 90
MINIMUM_TIMEOUT == 60

\* TimeUtil.UNITS_IN_MILLIS.SECOND
SECOND == 1000

\* what the random number generator adds to the minimum: nothing, or all of
\* the range
RandomNumbers ==
  {0, MAXIMUM_TIMEOUT - MINIMUM_TIMEOUT}

\* getRandomNumber(minimum, maximum): an integer from minimum to maximum
getRandomNumber(c, minimum, maximum) ==
  IF minimum + c.random <= maximum THEN minimum + c.random ELSE maximum

\* delay: what window.setTimeout is given, in milliseconds; timeout: what the
\* callback will hand to its handler, in seconds (0: nothing)
NoGroupCheckTimer == [delay |-> 0, timeout |-> 0]

setTimer(c, kind) == [c EXCEPT !.timers[kind] = Inc(@)]
clearTimer(c, kind) == [c EXCEPT !.timers[kind] = Dec(@)]

_clearGroupCheckTimeout(c) ==
  IF c.groupCheckTimeoutId # "none"
    THEN LET c1 == IF c.groupCheckTimeoutId \in {"send", "verify"}
                     THEN [clearTimer(c, c.groupCheckTimeoutId) EXCEPT
                             !.groupCheckTimer = NoGroupCheckTimer]
                     ELSE c
         IN  Log([c1 EXCEPT !.groupCheckTimeoutId = "none"], <<"clearGroupCheck">>)
    ELSE c

\* faulty variant: the timer is given the seconds as its delay
_setSendGroupCheckTimeout_Seconds(c) ==
  LET timeoutInSeconds == getRandomNumber(c, MINIMUM_TIMEOUT, MAXIMUM_TIMEOUT)
  IN  Log([setTimer(c, "send") EXCEPT
             !.groupCheckTimeoutId = "send",
             !.groupCheckTimer = [delay |-> timeoutInSeconds, timeout |-> timeoutInSeconds]],
          <<"setSendGroupCheck">>)

_setSendGroupCheckTimeout(c) ==
  LET timeoutInSeconds == getRandomNumber(c, MINIMUM_TIMEOUT, MAXIMUM_TIMEOUT)
      timeout == timeoutInSeconds * SECOND
  IN  Log([setTimer(c, "send") EXCEPT
             !.groupCheckTimeoutId = "send",
             !.groupCheckTimer = [delay |-> timeout, timeout |-> timeoutInSeconds]],
          <<"setSendGroupCheck">>)

_setVerifyGroupCheckTimeout(c) ==
  LET timeout == ACTIVITY_TIMEOUT * SECOND
  IN  Log([setTimer(c, "verify") EXCEPT
             !.groupCheckTimeoutId = "verify",
             !.groupCheckTimer = [delay |-> timeout, timeout |-> 0]],
          <<"setVerifyGroupCheck">>)

\* faulty variant: the pending timer is not cleared first
scheduleGroupCheck_NoClear(c) ==
  IF c.isConnected THEN _setSendGroupCheckTimeout(c)
                   ELSE _setVerifyGroupCheckTimeout(c)

scheduleGroupCheck(c) ==
  LET c1 == _clearGroupCheckTimeout(c)
  IN  IF c1.isConnected THEN _setSendGroupCheckTimeout(c1)
                        ELSE _setVerifyGroupCheckTimeout(c1)

_clearStateTimeout(c) ==
  IF c.stateTimeout # "none"
    THEN LET c1 == IF c.stateTimeout \in {"incoming", "outgoing"}
                     THEN clearTimer(c, "state") ELSE c
         IN  [c1 EXCEPT !.stateTimeout = "none"]
    ELSE c

\* flowEntity.resetFlow() of one participant
resetFlow(p) == [p EXCEPT !.flowActive = FALSE]

_clearTimeouts(c) ==
  _clearStateTimeout(_clearGroupCheckTimeout(Log(c, <<"clearTimeouts">>)))

AudioOf(isIncoming) == IF isIncoming THEN "INCOMING_CALL" ELSE "OUTGOING_CALL"

_playRingTone(c, isIncoming) == [c EXCEPT !.ringing = @ \cup {AudioOf(isIncoming)}]
_stopRingTone(c, isIncoming) == [c EXCEPT !.ringing = @ \ {AudioOf(isIncoming)}]

_setStateTimeout(c, isIncoming) ==
  [setTimer(c, "state") EXCEPT
     !.stateTimeout = IF isIncoming THEN "incoming" ELSE "outgoing"]

_onStateStartRinging(c, isIncoming) ==
  _setStateTimeout(_playRingTone(c, isIncoming), isIncoming)

\* faulty variant: the tone of an incoming call is stopped, whatever was ringing
_onStateStopRinging_Incoming(c) ==
  IF c.previousState \in UNANSWERED
    THEN _stopRingTone(c, TRUE)
    ELSE c

_onStateStopRinging(c) ==
  IF c.previousState \in UNANSWERED
    THEN _stopRingTone(c, c.previousState = INCOMING)
    ELSE c

_resetTimer(c) ==
  IF c.callTimerInterval # "none"
    THEN IF c.callTimerInterval = "set"
           THEN [clearTimer(c, "duration") EXCEPT !.callTimerInterval = "cleared"]
           ELSE c
    ELSE c

_resetFlows(c) ==
  [c EXCEPT !.participants =
     [i \in DOMAIN c.participants |-> resetFlow(c.participants[i])]]

---------------------------------------------------------------------------
(* Observables and their subscriptions *)

\* this.isConnected(value) with the subscription of the constructor
setIsConnected(c, value) ==
  IF c.isConnected = value THEN c
  ELSE LET c1 == [c EXCEPT !.isConnected = value]
       IN  IF value
             THEN LET c2 == [c1 EXCEPT !.wasConnected = TRUE]
                      c3 == IF c2.isGroup THEN scheduleGroupCheck(c2) ELSE c2
                  IN  [setTimer(c3, "duration") EXCEPT !.callTimerInterval = "set"]
             ELSE c1

\* this.selfClientJoined(value) with the subscription of the constructor
setSelfClientJoined(c, value) ==
  IF c.selfClientJoined = value THEN c
  ELSE LET c1 == [c EXCEPT !.selfClientJoined = value]
       IN  IF ~value
             THEN _resetFlows(_resetTimer(setIsConnected(c1, FALSE)))
             ELSE c1

\* this.state(value) with the isDeclined and state subscriptions
setState(c, value) ==
  IF c.state = value THEN c
  ELSE LET c1 == [c EXCEPT !.state = value]
           c2 == IF value = REJECTED THEN _stopRingTone(c1, TRUE) ELSE c1
           c3 == _clearStateTimeout(c2)
           c4 == IF value # UNKNOWN
                   THEN IF value \in UNANSWERED
                          THEN IF ~(value = INCOMING /\ c3.isUserAway)
                                 THEN _onStateStartRinging(c3, value = INCOMING)
                                 ELSE c3
                          ELSE _onStateStopRinging(c3)
                   ELSE c3
       IN  [c4 EXCEPT !.previousState = value]

setSelfState(c, joinedState, reason) ==
  LET c1 == IF reason # NoReason /\ c.terminationReason = NoReason
              THEN [c EXCEPT !.terminationReason = reason] ELSE c
      c2 == setSelfClientJoined(c1, joinedState)
  IN  [c2 EXCEPT !.selfUserJoined = joinedState]

---------------------------------------------------------------------------
(* Call states *)

_resetCall(c) ==
  LET c1 == setSelfState(c, FALSE, NoReason)
      c2 == setIsConnected(c1, FALSE)
  IN  [c2 EXCEPT !.sessionId = "none", !.terminationReason = NoReason]

deleteCall(c) == _resetCall(setState(Log(c, <<"deleteCall">>), ENDED))

\* callingRepository.deleteCall(id): removes the call and deletes the entity
repositoryDeleteCall(c) ==
  deleteCall([c EXCEPT !.deleteCount = Inc(@)])

\* callingRepository.injectDeactivateEvent(message, source, reason)
injectDeactivateEvent(c, reason) ==
  Log([c EXCEPT !.eventCount = Inc(@), !.injected = reason],
      <<"injectDeactivateEvent", reason>>)

\* faulty variant: the reason is taken from isConnected instead of wasConnected
_deleteCall_IsConnected(c, everyoneLeft, onGroupCheck) ==
  LET reason == IF ~c.isConnected THEN MISSED ELSE COMPLETED
  IN  repositoryDeleteCall(injectDeactivateEvent(c, reason))

_deleteCall(c, everyoneLeft, onGroupCheck) ==
  LET reason == IF ~c.wasConnected THEN MISSED ELSE COMPLETED
  IN  repositoryDeleteCall(injectDeactivateEvent(c, reason))

\* faulty variant: fromSelf is not accounted for
everyoneLeft_NoSelf(c, fromSelf) == Len(c.participants) <= 0

everyoneLeft(c, fromSelf) ==
  Len(c.participants) <= 0 + (IF fromSelf THEN 1 ELSE 0)

deactivateCall(c, fromSelf, reason) ==
  LET c1 == _clearTimeouts(Log(c, <<"deactivateCall", fromSelf, reason>>))
      left == everyoneLeft(c1, fromSelf)
      onGroupCheck == reason = GROUP_CHECK
  IN  IF left \/ onGroupCheck
        THEN LET c2 == Log([c1 EXCEPT !.terminationReason = reason],
                           <<"terminationReason", reason>>)
             IN  [_deleteCall(c2, left, onGroupCheck) EXCEPT !.ret = TRUE]
        ELSE LET c2 == IF c1.isGroup THEN scheduleGroupCheck(c1) ELSE c1
             IN  [c2 EXCEPT !.ret = FALSE]

---------------------------------------------------------------------------
(* Participants *)

\* the session id a participant entity holds for its user
ParticipantSessionId(userId) == IF userId = "u1" THEN "session_u1" ELSE "session_u2"

(* Rational numbers, for the panning: num / den in lowest terms, den > 0 *)

RECURSIVE GCD(_, _)
GCD(a, b) == IF b = 0 THEN a ELSE GCD(b, a % b)

Abs(n) == IF n < 0 THEN -n ELSE n

Rat(num, den) ==
  LET g == GCD(Abs(num), Abs(den))
      sign == IF den < 0 THEN -1 ELSE 1
  IN  [num |-> sign * (num \div g), den |-> sign * (den \div g)]

RatAdd(a, b) == Rat(a.num * b.den + b.num * a.den, a.den * b.den)
RatMul(a, b) == Rat(a.num * b.num, a.den * b.den)
RatDiv(a, b) == Rat(a.num * b.den, a.den * b.num)
RatNeg(a) == [num |-> -a.num, den |-> a.den]
RatLess(a, b) == a.num * b.den < b.num * a.den
RatInt(n) == [num |-> n, den |-> 1]

\* user ids of the members of a conversation
UserIds == <<"u1", "u2", "u3", "u4", "u5", "u6">>

\* user.joaatHash: the hash of the user; u2 and u4 collide
JoaatHash(userId) ==
  CASE userId = "u1" -> 3
    [] userId = "u2" -> 1
    [] userId = "u3" -> 4
    [] userId = "u4" -> 1
    [] userId = "u5" -> 2
    [] OTHER -> 5

\* new ParticipantEntity(call, user, timings)
ParticipantEntity(userId) ==
  [id |-> userId, flowActive |-> FALSE, sessionId |-> ParticipantSessionId(userId),
   joaatHash |-> JoaatHash(userId), panning |-> RatInt(0)]

\* participantEntity.startNegotiation(): the flow of the participant starts
startNegotiation(p) == [p EXCEPT !.flowActive = TRUE]

\* A call message as far as the participant methods read it: whether one is
\* given, how its clientId compares with the client the participant is bound
\* to ("none": the message carries no clientId), and what
\* participantEntity.updateState(message) resolves with.
NoMessage == [present |-> FALSE, clientId |-> "none", skipNegotiation |-> FALSE]

CallMessages ==
  {NoMessage} \cup
  [present : {TRUE}, clientId : {"none", "match", "mismatch"}, skipNegotiation : BOOLEAN]

\* participantEntity.verifyClientId(clientId) throws on another client
verifyClientId(clientId) == clientId # "mismatch"

\* the participants of the model send audio only
_updateRemoteState(c) == [c EXCEPT !.remoteMediaType = "AUDIO"]

\* faulty variant: the first participant, whatever its id
getParticipantById_Any(c, userId) ==
  IF c.participants # <<>> THEN 1 ELSE 0

\* getParticipantById: position of the first entity with the id, 0 for NOT_FOUND
getParticipantById(c, userId) ==
  IF \E i \in DOMAIN c.participants : c.participants[i].id = userId
    THEN CHOOSE i \in DOMAIN c.participants :
           /\ c.participants[i].id = userId
           /\ \A j \in 1..(i - 1) : c.participants[j].id # userId
    ELSE 0

RemoveAt(seq, i) == SubSeq(seq, 1, i - 1) \o SubSeq(seq, i + 1, Len(seq))

\* faulty variant: what the state update resolves with is ignored
_updateParticipantState_IgnoreSkip(c, i, negotiate, callMessageEntity) ==
  LET userId == c.participants[i].id
      c1 == IF callMessageEntity.present THEN Log(c, <<"updateState", userId>>) ELSE c
      c2 == _updateRemoteState(c1)
  IN  IF negotiate
        THEN Log([c2 EXCEPT !.participants[i] = startNegotiation(@)],
                 <<"startNegotiation", userId>>)
        ELSE c2

_updateParticipantState(c, i, negotiate, callMessageEntity) ==
  LET userId == c.participants[i].id
      c1 == IF callMessageEntity.present THEN Log(c, <<"updateState", userId>>) ELSE c
      skipNegotiation ==
        IF callMessageEntity.present THEN callMessageEntity.skipNegotiation ELSE FALSE
      doNegotiate == IF skipNegotiation THEN FALSE ELSE negotiate
      c2 == _updateRemoteState(c1)
  IN  IF doNegotiate
        THEN Log([c2 EXCEPT !.participants[i] = startNegotiation(@)],
                 <<"startNegotiation", userId>>)
        ELSE c2

_updateParticipant(c, i, negotiate, callMessageEntity) ==
  IF callMessageEntity.present /\ callMessageEntity.clientId # "none"
       /\ ~verifyClientId(callMessageEntity.clientId)
    THEN Log(c, <<"reject", "WRONG_SENDER">>)
    ELSE _updateParticipantState(c, i, negotiate, callMessageEntity)

\* faulty variant: the check for the self user is missing
_addParticipant_NoSelfCheck(c, userId, negotiate, callMessageEntity) ==
  [c EXCEPT !.pendingAdds = Append(@, [id |-> userId, negotiate |-> negotiate])]

\* the part of _addParticipant that runs before the user lookup
_addParticipant(c, userId, negotiate, callMessageEntity) ==
  IF userId = SelfId
    THEN Log(c, <<"reject", "WRONG_STATE">>)
    ELSE [c EXCEPT !.pendingAdds = Append(@, [id |-> userId, negotiate |-> negotiate])]

\* the part of _addParticipant that runs when get_user_by_id has resolved; the
\* message of the call is first read here
_addParticipantResolved(c, add, callMessageEntity) ==
  LET c1 == [c EXCEPT !.participants = Append(@, ParticipantEntity(add.id))]
  IN  _updateParticipantState(Log(c1, <<"push", add.id>>), Len(c1.participants),
                              add.negotiate, callMessageEntity)

addOrUpdateParticipant(c, userId, negotiate, callMessageEntity) ==
  LET i == getParticipantById(c, userId)
      c1 == Log(c, <<"addOrUpdateParticipant", userId, negotiate>>)
  IN  IF i # 0
        THEN _updateParticipant(c1, i, negotiate, callMessageEntity)
        ELSE _addParticipant(c1, userId, negotiate, callMessageEntity)

resetParticipant(c, userId) ==
  LET i == getParticipantById(c, userId)
  IN  IF i # 0
        THEN Log(_updateRemoteState([c EXCEPT !.participants[i] = resetFlow(@)]),
                 <<"resetParticipant", userId>>)
        ELSE Log(c, <<"reject", "NOT_FOUND">>)

deleteParticipant(c, userId, clientId) ==
  LET i == getParticipantById(c, userId)
  IN  IF i # 0
        THEN IF clientId # "none" /\ ~verifyClientId(clientId)
               THEN Log(c, <<"reject", "WRONG_SENDER">>)
               ELSE Log(_updateRemoteState([c EXCEPT !.participants = RemoveAt(@, i)]),
                        <<"removed", userId>>)
        ELSE Log(c, <<"resolve", "call">>)

\* a call message as far as verifySessionId reads it
SessionMessages ==
  [userId : RemoteUsers,
   sessionId : {"session", "session_u1", "session_u2", "session_x"}]

verifySessionId(c, callMessageEntity) ==
  IF callMessageEntity.sessionId = c.sessionId
    THEN Log(c, <<"resolve", "call">>)
    ELSE LET i == getParticipantById(c, callMessageEntity.userId)
         IN  IF i = 0
               THEN Log(c, <<"reject", "NOT_FOUND">>)
               ELSE IF callMessageEntity.sessionId = c.participants[i].sessionId
                      THEN Log(c, <<"resolve", "call">>)
                      ELSE Log(c, <<"reject", "WRONG_SENDER">>)

_calculatePanning(index, numberOfParticipants) ==
  IF numberOfParticipants = 1
    THEN RatInt(0)
    ELSE LET position == RatDiv(RatNeg(RatInt(numberOfParticipants - 1)),
                                RatInt(numberOfParticipants + 1))
             delta == RatDiv(RatMul(RatInt(-2), position), RatInt(numberOfParticipants - 1))
         IN  RatAdd(position, RatMul(delta, RatInt(index)))

\* Array.prototype.sort by ascending joaatHash, keeping the order of equal hashes
InsertByHash(sorted, p) ==
  LET k == Cardinality({i \in DOMAIN sorted : sorted[i].joaatHash <= p.joaatHash})
  IN  SubSeq(sorted, 1, k) \o <<p>> \o SubSeq(sorted, k + 1, Len(sorted))

RECURSIVE SortByHash(_)
SortByHash(seq) ==
  IF seq = <<>> THEN <<>>
  ELSE InsertByHash(SortByHash(SubSeq(seq, 1, Len(seq) - 1)), seq[Len(seq)])

_sortParticipantsByPanning(c) ==
  IF Len(c.participants) >= 2
    THEN LET sorted == SortByHash(c.participants)
         IN  [c EXCEPT !.participants =
                [i \in DOMAIN sorted |->
                   [sorted[i] EXCEPT !.panning = _calculatePanning(i - 1, Len(sorted))]]]
    ELSE c

\* room for one more participant entity
HasRoom(c) == Len(c.participants) + Len(c.pendingAdds) < MaxParticipants

---------------------------------------------------------------------------
(* Join, leave, reject *)

canConnectState(s) == s \in CAN_CONNECT

\* faulty variant: the state check is missing
joinCallState_NoGuard(c) == setState(c, CONNECTING)

\* the state after the first statement of joinCall
joinCallState(c) ==
  IF canConnectState(c.state) THEN setState(c, CONNECTING) ELSE c

\* conversationEntity.participating_user_ids()[0]
RemoteUserId == "u1"

_join1to1Call(c) == addOrUpdateParticipant(c, RemoteUserId, TRUE, NoMessage)

_joinGroupCall(c) ==
  LET response == ~(c.state = OUTGOING)
  IN  Log(c, <<"send", "GROUP_START", response>>)

\* faulty variant: the join flow is guarded by canConnectState too
joinCall_Guarded(c) ==
  LET c0 == Log(c, <<"joinCall", c.state>>)
      c1 == joinCallState(c0)
  IN  IF canConnectState(c.state)
        THEN IF c1.isGroup THEN _joinGroupCall(c1) ELSE _join1to1Call(c1)
        ELSE c0

joinCall(c) ==
  LET c1 == joinCallState(Log(c, <<"joinCall", c.state>>))
  IN  IF c1.isGroup THEN _joinGroupCall(c1) ELSE _join1to1Call(c1)

\* faulty variant: the isOngoing check is missing
leaveCallState_NotOngoing(c) ==
  IF ~c.isGroup THEN setState(c, DISCONNECTING) ELSE c

\* the state after the first statement of leaveCall
leaveCallState(c) ==
  IF c.state = ONGOING /\ ~c.isGroup THEN setState(c, DISCONNECTING) ELSE c

RECURSIVE sendToFlows(_, _, _)
sendToFlows(c, type, i) ==
  IF i > Len(c.participants) THEN c
  ELSE sendToFlows(sendCallMessage(c, type, c.participants[i].id), type, i + 1)

RECURSIVE resetParticipants(_, _, _)
\* Promise.all(this.participants().map(({id}) => this.resetParticipant(id)))
resetParticipants(c, ids, i) ==
  IF i > Len(ids) THEN c
  ELSE resetParticipants(resetParticipant(c, ids[i]), ids, i + 1)

\* the continuation of leaveCall that runs when all sends have resolved
leaveCallSent(c, reason) ==
  LET ids == [i \in DOMAIN c.participants |-> c.participants[i].id]
      c1 == resetParticipants(Log(c, <<"sendsCompleted">>), ids, 1)
      c2 == IF c1.isGroup THEN sendCallMessage(c1, "GROUP_LEAVE", "all") ELSE c1
      c3 == setSelfState(Log(c2, <<"setSelfState", FALSE>>), FALSE, reason)
      c4 == deactivateCall(c3, TRUE, reason)
  IN  IF ~c4.ret THEN setState(Log(c4, <<"state", REJECTED>>), REJECTED) ELSE c4

leaveCall(c, reason) ==
  LET c1 == leaveCallState(Log(c, <<"leaveCall", reason>>))
      type == IF c1.isConnected THEN "HANGUP" ELSE "CANCEL"
      c2 == sendToFlows(c1, type, 1)
  IN  IF Len(c2.participants) = 0
        THEN leaveCallSent(c2, reason)
        ELSE [c2 EXCEPT !.pendingLeaves = Append(@, [reason |-> reason])]

\* faulty variant: the check for remaining participants is missing
participantLeft_NoCheck(c, reason) ==
  IF c.selfClientJoined
    THEN leaveCall(c, reason)
    ELSE deactivateCall(c, FALSE, reason)

participantLeft(c, reason) ==
  IF Len(c.participants) = 0
    THEN IF c.selfClientJoined
           THEN leaveCall(c, reason)
           ELSE deactivateCall(c, FALSE, reason)
    ELSE c

rejectCall(c, shareRejection) ==
  LET c1 == setState(c, REJECTED)
  IN  IF shareRejection THEN sendCallMessage(c1, "REJECT", "all") ELSE c1

---------------------------------------------------------------------------
(* Timer callbacks *)

\* faulty variant: the check for remaining participants is missing
_onSendGroupCheckTimeout_NoCheck(c, timeout) ==
  scheduleGroupCheck(sendCallMessage(Log(c, <<"info", "group check", timeout>>),
                                     "GROUP_CHECK", "all"))

_onSendGroupCheckTimeout(c, timeout) ==
  IF Len(c.participants) # 0
    THEN scheduleGroupCheck(sendCallMessage(Log(c, <<"info", "group check", timeout>>),
                                            "GROUP_CHECK", "all"))
    ELSE leaveCall(c, OTHER_USER)

\* faulty variant: the call is deactivated as if a participant had left
_onVerifyGroupCheckTimeout_OtherUser(c) == deactivateCall(c, FALSE, OTHER_USER)

_onVerifyGroupCheckTimeout(c) == deactivateCall(c, FALSE, GROUP_CHECK)

\* the callback armed by _setStateTimeout(isIncoming)
_onStateTimeout(c, isIncoming) ==
  LET c1 == _stopRingTone(c, isIncoming)
  IN  IF isIncoming
        THEN IF c1.isGroup THEN rejectCall(c1, FALSE)
                           ELSE Log(c1, <<"publish", "CALL.STATE.DELETE">>)
        ELSE Log(c1, <<"publish", "CALL.STATE.LEAVE", TIMEOUT>>)

\* the event loop takes one pending timer of the kind and runs its callback
fired(c, kind) == [c EXCEPT !.timers[kind] = Dec(@)]

\* the heartbeat timer of the kind has left the event loop; the handle of the
\* entity still names it
firedGroupCheck(c, kind) ==
  [fired(c, kind) EXCEPT
     !.groupCheckTimeoutId = IF @ = kind THEN "fired" ELSE @,
     !.groupCheckTimer = IF c.groupCheckTimeoutId = kind THEN NoGroupCheckTimer ELSE @]

---------------------------------------------------------------------------
(* BackendClient: the queue states and the client as its constructor      *)
(* leaves it                                                              *)

READY == "READY"
CONNECTIVITY_PROBLEM == "CONNECTIVITY_PROBLEM"
ACCESS_TOKEN_REFRESH == "ACCESS_TOKEN_REFRESH"
QUEUE_STATE == {READY, CONNECTIVITY_PROBLEM, ACCESS_TOKEN_REFRESH}

\* new PromiseQueue(): empty and not paused.
PromiseQueue == [queue |-> <<>>, paused |-> FALSE]

BackendClient ==
  /\ connectivityTimeout = "undefined"
  /\ connectivityQueue = [waiting |-> FALSE, paused |-> FALSE]
  /\ requestQueue = PromiseQueue
  /\ queueState = READY
  /\ queueTimeout = "undefined"
  /\ accessToken = ""
  /\ configs = <<>>
  /\ promises = <<>>
  /\ inFlight = {}

(* Conversations of the conversation repository *)

UNVERIFIED == "UNVERIFIED"
VERIFIED == "VERIFIED"
DEGRADED == "DEGRADED"
ConversationVerificationState == {UNVERIFIED, VERIFIED, DEGRADED}

\* filtered_conversations(), in the order of the repository
ConversationIds == <<"c1", "c2">>

\* a conversation entity before anything is known about its clients
Conversation ==
  [verification_state |-> UNVERIFIED,
   is_verified |-> "undefined",
   participating_user_ids |-> {},
   removed_from_conversation |-> FALSE]

ConversationRepository ==
  conversations = [id \in {ConversationIds[k] : k \in DOMAIN ConversationIds} |-> Conversation]

\* mockStoreFactory(...)({}): a store nothing has been dispatched to
mockStoreFactory ==
  /\ storeActions = <<>>
  /\ dispatchedBy = <<>>
  /\ thunks = <<>>

(* Initial state: the entity as its constructor leaves it *)

NoTimers == [send |-> 0, verify |-> 0, state |-> 0, duration |-> 0]

Init ==
  /\ state = UNKNOWN
  /\ previousState = "none"
  /\ isGroup \in BOOLEAN
  /\ isConnected = FALSE
  /\ wasConnected = FALSE
  /\ selfClientJoined = FALSE
  /\ selfUserJoined = FALSE
  /\ terminationReason = NoReason
  /\ sessionId = "session"
  /\ participants = <<>>
  /\ groupCheckTimeoutId = IF isGroup THEN "verify" ELSE "none"
  /\ stateTimeout = "none"
  /\ callTimerInterval = "none"
  /\ groupCheckTimer = IF isGroup THEN [delay |-> ACTIVITY_TIMEOUT * SECOND, timeout |-> 0]
                                  ELSE NoGroupCheckTimer
  /\ remoteMediaType = "NONE"
  /\ timers = [NoTimers EXCEPT !.verify = IF isGroup THEN 1 ELSE 0]
  /\ ringing = {}
  /\ pendingAdds = <<>>
  /\ pendingLeaves = <<>>
  /\ deleteCount = 0
  /\ eventCount = 0
  /\ injected = "none"
  /\ everConnected = FALSE
  /\ BackendClient
  /\ ConversationRepository
  /\ mockStoreFactory

---------------------------------------------------------------------------
(* Actions: one per macrotask of the event loop.  The calling repository  *)
(* drops the entity when the call is deleted, so operations are invoked   *)
(* from outside on a call that has not ended; timer callbacks and promise *)
(* continuations of an ended call still run.                             *)

Live == state # ENDED

\* the calling repository moves a new call to INCOMING or OUTGOING, and an
\* established connection moves a connecting call to ONGOING
ExternalEdges == {<<UNKNOWN, INCOMING>>, <<UNKNOWN, OUTGOING>>, <<CONNECTING, ONGOING>>}

SetState ==
  \E s \in CALL_STATE, away \in BOOLEAN :
    /\ <<state, s>> \in ExternalEdges
    /\ Commit(setState([Cur EXCEPT !.isUserAway = away], s))

\* the calling repository marks the self client as joined
SetSelfJoined ==
  /\ state \notin {UNKNOWN, ENDED}
  /\ ~selfClientJoined
  /\ Commit(setSelfState(Cur, TRUE, NoReason))

\* a flow reports the established connection
Connected ==
  /\ Live
  /\ selfClientJoined
  /\ ~isConnected
  /\ \E i \in DOMAIN participants : participants[i].flowActive
  /\ \E random \in RandomNumbers :
       Commit(setIsConnected([Cur EXCEPT !.random = random], TRUE))

JoinCall ==
  /\ Live
  /\ isGroup \/ getParticipantById(Cur, RemoteUserId) # 0 \/ HasRoom(Cur)
  /\ Commit(joinCall(Cur))

LeaveCall ==
  /\ Live
  /\ participants = <<>> \/ Len(pendingLeaves) < MaxPendingLeaves
  /\ Commit(leaveCall(Cur, SELF_USER))

\* all hangup/cancel sends of a pending leaveCall have resolved
LeaveCallSent ==
  \E i \in DOMAIN pendingLeaves :
    Commit(leaveCallSent([Cur EXCEPT !.pendingLeaves = RemoveAt(@, i)],
                         pendingLeaves[i].reason))

\* a hangup/cancel send of a pending leaveCall has been rejected
LeaveCallSendFailed ==
  \E i \in DOMAIN pendingLeaves :
    Commit([Cur EXCEPT !.pendingLeaves = RemoveAt(@, i)])

RejectCall ==
  /\ Live
  /\ \E shareRejection \in BOOLEAN :
    Commit(rejectCall(Cur, shareRejection))

DeleteCall ==
  /\ Live
  /\ Commit(deleteCall(Cur))

DeactivateCall ==
  /\ Live
  /\ \E fromSelf \in BOOLEAN, reason \in {SELF_USER, GROUP_CHECK}, random \in RandomNumbers :
    Commit(deactivateCall([Cur EXCEPT !.random = random], fromSelf, reason))

ParticipantLeft ==
  /\ Live
  /\ participants # <<>> \/ Len(pendingLeaves) < MaxPendingLeaves
  /\ Commit(participantLeft(Cur, OTHER_USER))

AddOrUpdateParticipant ==
  /\ Live
  /\ \E userId \in RemoteUsers \cup {SelfId}, negotiate \in BOOLEAN,
        callMessageEntity \in CallMessages :
    /\ userId \in RemoteUsers => isGroup \/ userId = RemoteUserId
    /\ getParticipantById(Cur, userId) # 0 \/ userId = SelfId \/ HasRoom(Cur)
    /\ Commit(addOrUpdateParticipant(Cur, userId, negotiate, callMessageEntity))

\* userRepository.get_user_by_id has resolved for a waiting _addParticipant
AddParticipantResolved ==
  \E i \in DOMAIN pendingAdds, callMessageEntity \in CallMessages :
    Commit(_addParticipantResolved([Cur EXCEPT !.pendingAdds = RemoveAt(@, i)],
                                   pendingAdds[i], callMessageEntity))

DeleteParticipant ==
  /\ Live
  /\ \E userId \in RemoteUsers, clientId \in {"none", "match", "mismatch"} :
    Commit(deleteParticipant(Cur, userId, clientId))

ResetParticipant ==
  /\ Live
  /\ \E userId \in RemoteUsers :
    Commit(resetParticipant(Cur, userId))

\* the calling repository verifies an incoming call message
VerifySessionId ==
  /\ Live
  /\ \E callMessageEntity \in SessionMessages :
    Commit(verifySessionId(Cur, callMessageEntity))

SendGroupCheckTimeout ==
  /\ timers.send > 0
  /\ \E random \in RandomNumbers :
       Commit(_onSendGroupCheckTimeout(
                [firedGroupCheck(Cur, "send") EXCEPT !.random = random],
                groupCheckTimer.timeout))

VerifyGroupCheckTimeout ==
  /\ timers.verify > 0
  /\ Commit(_onVerifyGroupCheckTimeout(firedGroupCheck(Cur, "verify")))

StateTimeout ==
  /\ timers.state > 0
  /\ stateTimeout \in {"incoming", "outgoing"}
  /\ Commit(_onStateTimeout([fired(Cur, "state") EXCEPT !.stateTimeout = "fired"],
                            stateTimeout = "incoming"))

Next ==
  \/ SetState
  \/ SetSelfJoined
  \/ Connected
  \/ JoinCall
  \/ LeaveCall
  \/ LeaveCallSent
  \/ LeaveCallSendFailed
  \/ RejectCall
  \/ DeleteCall
  \/ DeactivateCall
  \/ ParticipantLeft
  \/ AddOrUpdateParticipant
  \/ AddParticipantResolved
  \/ DeleteParticipant
  \/ ResetParticipant
  \/ VerifySessionId
  \/ SendGroupCheckTimeout
  \/ VerifyGroupCheckTimeout
  \/ StateTimeout

Spec == Init /\ [][Next]_vars

---------------------------------------------------------------------------
(* Properties of the call state machine *)

\* the edges of the call state machine as the specification lists them
SpecEdges ==
  {<<UNKNOWN, INCOMING>>, <<UNKNOWN, OUTGOING>>, <<INCOMING, CONNECTING>>,
   <<OUTGOING, CONNECTING>>, <<CONNECTING, ONGOING>>, <<ONGOING, DISCONNECTING>>,
   <<ONGOING, REJECTED>>, <<DISCONNECTING, ENDED>>, <<REJECTED, ENDED>>}

C2_ConnectingOnlyFromCanConnect ==
  [][/\ (state' = CONNECTING /\ state # CONNECTING) => canConnectState(state)
     /\ (JoinCall /\ ~canConnectState(state)) => state' = state]_vars

\* C2 witness: a call that joinCall has moved to CONNECTING
C2_Witness ==
  /\ state = CONNECTING
  /\ previousState = CONNECTING

\* the join flow: a group-start message, or the remote user added or updated
\* with negotiation
IsJoinFlow(entry) ==
  \/ entry.e[1] = "send" /\ entry.e[2] = "GROUP_START"
  \/ entry.e[1] = "addOrUpdateParticipant" /\ entry.e[3] = TRUE

JoinFlowTriggered(c) == \E i \in DOMAIN c.log : IsJoinFlow(c.log[i])

\* C3, as stated: joinCall in a state where canConnectState is false does not
\* trigger the join flow.
C3_NoJoinFlowUnlessCanConnect ==
  ~canConnectState(state) => ~JoinFlowTriggered(joinCall(Cur))

\* C3, amended: joinCall triggers the join flow in every state; when
\* canConnectState is true the state is CONNECTING before the join flow starts,
\* and otherwise the state is unchanged when it starts.
C3_JoinFlowAlways ==
  LET r == joinCall(Cur)
  IN  /\ JoinFlowTriggered(r)
      /\ \A i \in DOMAIN r.log :
           IsJoinFlow(r.log[i]) =>
             r.log[i].at = IF canConnectState(state) THEN CONNECTING ELSE state

\* C3 witness: an ongoing call, where canConnectState is false and joinCall
\* triggers the join flow
C3_Witness ==
  /\ state = ONGOING
  /\ ~canConnectState(state)
  /\ JoinFlowTriggered(joinCall(Cur))

\* C4: once the state is ENDED or REJECTED it stays in {ENDED, REJECTED}, and
\* once it is ENDED it never changes again.
C4_TerminalStates ==
  [][/\ state \in {ENDED, REJECTED} => state' \in {ENDED, REJECTED}
     /\ state = ENDED => state' = ENDED]_vars

---------------------------------------------------------------------------
(* Properties of deactivateCall *)

Reasons == {SELF_USER, OTHER_USER, GROUP_CHECK}

\* all participants have left, accounting for self
AllLeft(fromSelf) ==
  IF fromSelf THEN Len(participants) <= 1 ELSE Len(participants) = 0

Rescheduled(c) ==
  Logged(c, <<"setSendGroupCheck">>) \/ Logged(c, <<"setVerifyGroupCheck">>)

\* C5: deactivateCall first clears all timeouts; it records the reason, injects
\* a deactivation event, deletes the call (once) and resolves true if and only
\* if all participants have left, accounting for self, or the reason is
\* GROUP_CHECK; otherwise it resolves false, keeps the call and, in a group
\* call, reschedules the heartbeat.
C5_DeactivateCall ==
  \A fromSelf \in BOOLEAN, reason \in Reasons :
    LET r == deactivateCall(Cur, fromSelf, reason)
        tearDown == AllLeft(fromSelf) \/ reason = GROUP_CHECK
    IN  /\ r.log[2].e = <<"clearTimeouts">>
        /\ r.ret = tearDown
        /\ tearDown =>
             /\ Logged(r, <<"terminationReason", reason>>)
             /\ r.injected # "none"
             /\ r.eventCount = Inc(eventCount)
             /\ r.deleteCount = Inc(deleteCount)
             /\ r.state = ENDED
             /\ ~Rescheduled(r)
             /\ r.groupCheckTimeoutId = "none"
        /\ ~tearDown =>
             /\ r.injected = "none"
             /\ r.deleteCount = deleteCount
             /\ r.state = state
             /\ Rescheduled(r) = isGroup
             /\ isGroup => r.groupCheckTimeoutId \in {"send", "verify"}

\* C5 witness: a connected group call without participants, which
\* deactivateCall from self deletes once, leaving no heartbeat scheduled
C5_Witness ==
  /\ isGroup
  /\ participants = <<>>
  /\ groupCheckTimeoutId = "send"
  /\ deleteCount = 0
  /\ LET r == deactivateCall(Cur, TRUE, SELF_USER)
     IN  /\ r.ret
         /\ r.deleteCount = 1
         /\ r.state = ENDED
         /\ r.groupCheckTimeoutId = "none"
         /\ r.timers.send = 0 /\ r.timers.verify = 0

\* C6: the deactivation event carries MISSED if isConnected was never true, and
\* COMPLETED if it was true at least once.
C6_EventReason ==
  injected # "none" => injected = IF everConnected THEN COMPLETED ELSE MISSED

\* C6 witness: the event of a call that was connected and has left again
C6_Witness ==
  /\ injected = COMPLETED
  /\ ~isConnected

---------------------------------------------------------------------------
(* Properties of leaveCall and participantLeft *)

HasDuplicates(c) ==
  \E i, j \in DOMAIN c.participants :
    i # j /\ c.participants[i].id = c.participants[j].id

LogIndexes(c, P(_)) == {i \in DOMAIN c.log : P(c.log[i].e)}

IsLeaveSend(e) == e[1] = "send" /\ e[2] \in {"HANGUP", "CANCEL"}
IsReset(e) == e[1] = "resetParticipant"
IsDeactivate(e) == e[1] = "deactivateCall"
IsSendsCompleted(e) == e = <<"sendsCompleted">>

\* what the continuation of leaveCall has done when it ends in r
LeaveFinished(r) ==
  /\ \A j \in DOMAIN r.participants :
       /\ ~r.participants[j].flowActive
       /\ Logged(r, <<"resetParticipant", r.participants[j].id>>)
  /\ \A i \in LogIndexes(r, IsReset) :
       \A k \in LogIndexes(r, IsSendsCompleted) : k < i
  /\ Logged(r, <<"send", "GROUP_LEAVE", "all">>) = isGroup
  /\ ~r.selfClientJoined
  /\ ~r.selfUserJoined
  /\ \A i \in LogIndexes(r, IsDeactivate) : r.log[i].e[2] = TRUE
  /\ LogIndexes(r, IsDeactivate) # {}
  /\ Logged(r, <<"state", REJECTED>>) = ~r.ret
  /\ r.state = IF r.ret THEN ENDED ELSE REJECTED

\* C7: leaveCall sends a hangup (connected) or cancel (not connected) message
\* to every participant; only after these sends have completed it resets every
\* participant, sends a group-leave message in a group call, clears the
\* self-joined flags and calls deactivateCall with fromSelf = true; the state
\* is set to REJECTED if and only if deactivateCall did not delete the call.
C7_LeaveCall ==
  LET r == leaveCall(Cur, SELF_USER)
      type == IF isConnected THEN "HANGUP" ELSE "CANCEL"
  IN  /\ \A i \in DOMAIN participants :
           r.log[i + 1].e = <<"send", type, participants[i].id>>
      /\ Cardinality(LogIndexes(r, IsLeaveSend)) = Len(participants)
      /\ \A i \in LogIndexes(r, IsLeaveSend) :
           \A k \in LogIndexes(r, IsSendsCompleted) : i < k
      /\ IF participants = <<>>
           THEN LeaveFinished(r)
           ELSE /\ r.pendingLeaves = Append(pendingLeaves, [reason |-> SELF_USER])
                /\ r.participants = participants
                /\ r.selfClientJoined = selfClientJoined
                /\ LogIndexes(r, IsReset) = {}
                /\ LogIndexes(r, IsDeactivate) = {}
      /\ \A i \in DOMAIN pendingLeaves :
           LeaveFinished(leaveCallSent([Cur EXCEPT !.pendingLeaves = RemoveAt(@, i)],
                                       pendingLeaves[i].reason))

\* C8: when a hangup or cancel send of leaveCall fails, leaveCall still resets
\* the participants, clears the self-joined flags and deactivates the call or
\* marks it REJECTED.
C8_LeaveDespiteSendFailure ==
  [][LeaveCallSendFailed =>
       /\ ~selfClientJoined'
       /\ ~selfUserJoined'
       /\ state' \in {ENDED, REJECTED}
       /\ \A j \in DOMAIN participants' : ~participants'[j].flowActive]_vars

\* C9: participantLeft changes nothing while a participant remains; with none
\* remaining it invokes leaveCall with the given reason if the self client has
\* joined, and deactivateCall with fromSelf = false otherwise.
C9_ParticipantLeft ==
  \A reason \in {OTHER_USER, SELF_USER} :
    LET r == participantLeft(Cur, reason)
    IN  IF participants # <<>>
          THEN r = Cur
          ELSE IF selfClientJoined
                 THEN /\ r.log[1].e = <<"leaveCall", reason>>
                      /\ ~r.selfClientJoined
                      /\ \A i \in LogIndexes(r, IsDeactivate) :
                           r.log[i].e = <<"deactivateCall", TRUE, reason>>
                 ELSE /\ r.log[1].e = <<"deactivateCall", FALSE, reason>>
                      /\ Cardinality(LogIndexes(r, IsDeactivate)) = 1
                      /\ r.deleteCount = Inc(deleteCount)

\* C9 witness: a joined call whose last participant has gone, which
\* participantLeft leaves and deletes
C9_Witness ==
  /\ participants = <<>>
  /\ selfClientJoined
  /\ isConnected
  /\ state = ONGOING
  /\ participantLeft(Cur, OTHER_USER).state = ENDED

\* C10: no two entries of the participants list have the same userId.
C10_UniqueParticipants == ~HasDuplicates(Cur)

\* C7 holds in every state whose participants list has no duplicate
C7_LeaveCallUnlessDuplicates == C7_LeaveCall \/ HasDuplicates(Cur)

---------------------------------------------------------------------------
(* Properties of the participant list *)

Rejected(c) == \E i \in DOMAIN c.log : c.log[i].e[1] = "reject"

Resolved(c) == Logged(c, <<"resolve", "call">>)

\* C11: the participants list never contains the self user, and
\* addOrUpdateParticipant with the id of the self user is rejected with
\* WRONG_STATE and leaves the participants list unchanged.
C11_SelfNeverParticipant ==
  /\ \A i \in DOMAIN participants : participants[i].id # SelfId
  /\ \A i \in DOMAIN pendingAdds : pendingAdds[i].id # SelfId
  /\ \A negotiate \in BOOLEAN, callMessageEntity \in CallMessages :
       LET r == addOrUpdateParticipant(Cur, SelfId, negotiate, callMessageEntity)
       IN  /\ Logged(r, <<"reject", "WRONG_STATE">>)
           /\ r.participants = participants
           /\ r.pendingAdds = pendingAdds

\* C11 witness: a call with a participant, where addOrUpdateParticipant with
\* the id of the self user is rejected
C11_Witness ==
  /\ participants # <<>>
  /\ Logged(addOrUpdateParticipant(Cur, SelfId, TRUE, NoMessage),
            <<"reject", "WRONG_STATE">>)

\* C12: getParticipantById gives a participant whose id is userId when there
\* is one, and NOT_FOUND otherwise; the lookup, and a caller that ends with
\* its NOT_FOUND, leave the participants list as it is.
C12_GetParticipantById ==
  \A userId \in RemoteUsers \cup {SelfId} :
    LET i == getParticipantById(Cur, userId)
    IN  IF \E j \in DOMAIN participants : participants[j].id = userId
          THEN /\ i \in DOMAIN participants
               /\ participants[i].id = userId
          ELSE /\ i = 0
               /\ resetParticipant(Cur, userId).participants = participants

\* C12 witness: a call with two participants, the second of which is found
C12_Witness ==
  /\ Len(participants) = 2
  /\ participants[1].id # participants[2].id
  /\ getParticipantById(Cur, participants[2].id) = 2
  /\ getParticipantById(Cur, SelfId) = 0

\* what _updateParticipantState has done to participant i (id userId) of
\* before when it ends in r
NegotiatedAsRequested(before, r, i, negotiate, callMessageEntity) ==
  LET userId == before.participants[i].id
      updates == {k \in DOMAIN r.log : r.log[k].e = <<"updateState", userId>>}
      starts == {k \in DOMAIN r.log : r.log[k].e = <<"startNegotiation", userId>>}
      wanted == negotiate /\ ~(callMessageEntity.present /\ callMessageEntity.skipNegotiation)
  IN  /\ Cardinality(updates) = IF callMessageEntity.present THEN 1 ELSE 0
      /\ Cardinality(starts) = IF wanted THEN 1 ELSE 0
      /\ \A u \in updates, n \in starts : u < n
      /\ r.participants[i] = IF wanted THEN startNegotiation(before.participants[i])
                                       ELSE before.participants[i]

\* C13: addOrUpdateParticipant applies the state update of the message, if
\* there is one, before negotiation, and starts negotiation on the participant
\* if and only if negotiate is true and the update did not resolve with
\* skipNegotiation; without a message negotiation starts exactly when negotiate
\* is true.  This holds for a participant found (the message passing the client
\* check) and for one added when the user lookup resolves.
C13_Negotiation ==
  \A negotiate \in BOOLEAN, callMessageEntity \in CallMessages :
    /\ \A userId \in RemoteUsers :
         LET i == getParticipantById(Cur, userId)
         IN  (i # 0 /\ verifyClientId(callMessageEntity.clientId)) =>
               NegotiatedAsRequested(Cur, addOrUpdateParticipant(Cur, userId, negotiate,
                                                                 callMessageEntity),
                                     i, negotiate, callMessageEntity)
    /\ \A k \in DOMAIN pendingAdds :
         LET add == [pendingAdds[k] EXCEPT !.negotiate = negotiate]
             pushed == [Cur EXCEPT !.participants = Append(@, ParticipantEntity(add.id))]
         IN  NegotiatedAsRequested(pushed,
                                   _addParticipantResolved(Cur, add, callMessageEntity),
                                   Len(pushed.participants), negotiate, callMessageEntity)

\* C13 witness: a participant whose flow has not started, for whom a message
\* with a state update that resolves with skipNegotiation is applied and
\* negotiation, though requested, is not started
C13_Witness ==
  /\ participants # <<>>
  /\ ~participants[1].flowActive
  /\ LET r == addOrUpdateParticipant(Cur, participants[1].id, TRUE,
                 [present |-> TRUE, clientId |-> "match", skipNegotiation |-> TRUE])
     IN  /\ Logged(r, <<"updateState", participants[1].id>>)
         /\ ~Logged(r, <<"startNegotiation", participants[1].id>>)
         /\ ~r.participants[1].flowActive

\* C14: deleteParticipant and resetParticipant with a userId that is not in the
\* call resolve without error and leave the participants list and the remote
\* media type unchanged.
C14_NotFoundNoOp ==
  \A userId \in RemoteUsers :
    getParticipantById(Cur, userId) = 0 =>
      /\ \A clientId \in {"none", "match", "mismatch"} :
           LET r == deleteParticipant(Cur, userId, clientId)
           IN  /\ ~Rejected(r)
               /\ r.participants = participants
               /\ r.remoteMediaType = remoteMediaType
      /\ LET r == resetParticipant(Cur, userId)
         IN  /\ ~Rejected(r)
             /\ r.participants = participants
             /\ r.remoteMediaType = remoteMediaType

\* C15: verifySessionId resolves with the call when the sessionId of the
\* message is that of the call or that of the sending participant, rejects with
\* WRONG_SENDER otherwise, also for a sender that is not a participant, and
\* never modifies the call.
C15_VerifySessionId ==
  \A callMessageEntity \in SessionMessages :
    LET r == verifySessionId(Cur, callMessageEntity)
        i == getParticipantById(Cur, callMessageEntity.userId)
        matches == \/ callMessageEntity.sessionId = sessionId
                   \/ i # 0 /\ callMessageEntity.sessionId = participants[i].sessionId
    IN  /\ matches => Resolved(r) /\ ~Rejected(r)
        /\ ~matches => Logged(r, <<"reject", "WRONG_SENDER">>) /\ ~Resolved(r)
        /\ [r EXCEPT !.log = <<>>] = Cur

---------------------------------------------------------------------------
(* Properties of the group-check heartbeat *)

\* the pending heartbeat timer of c is the one for its connection status
MatchesConnection(c) ==
  IF c.isConnected
    THEN c.groupCheckTimeoutId = "send" /\ c.timers.send = 1 /\ c.timers.verify = 0
    ELSE c.groupCheckTimeoutId = "verify" /\ c.timers.verify = 1 /\ c.timers.send = 0

\* C16: at most one heartbeat timer is pending, and it is the one the handle
\* of the entity names, so that arming a timer cancels the pending one.
C16_OneGroupCheckTimer ==
  /\ timers.send + timers.verify <= 1
  /\ timers.send > 0 => groupCheckTimeoutId = "send"
  /\ timers.verify > 0 => groupCheckTimeoutId = "verify"
  /\ LET r == scheduleGroupCheck(Cur)
     IN  r.timers.send + r.timers.verify = 1

\* C16 witness: a connected group call whose verification timer was cancelled
\* when the send-check timer was armed
C16_Witness ==
  /\ isGroup
  /\ isConnected
  /\ groupCheckTimeoutId = "send"
  /\ timers.send = 1
  /\ timers.verify = 0

\* the heartbeat timer has been cancelled and rescheduled by the operation that
\* ends in r, and matches the connection status
RescheduledToMatch(r) ==
  r.state # ENDED => Rescheduled(r) /\ MatchesConnection(r)

\* C17: in a group call that has not been torn down, every state change, every
\* join (self or participant) and every leave (self or participant) cancels and
\* reschedules the heartbeat timer so that it matches the connection status.
C17_RescheduledOnChange ==
  (isGroup /\ Live) =>
    /\ \A s \in CALL_STATE :
         <<state, s>> \in ExternalEdges => RescheduledToMatch(setState(Cur, s))
    /\ RescheduledToMatch(joinCall(Cur))
    /\ ~selfClientJoined => RescheduledToMatch(setSelfState(Cur, TRUE, NoReason))
    /\ \A k \in DOMAIN pendingAdds :
         RescheduledToMatch(_addParticipantResolved(Cur, pendingAdds[k], NoMessage))
    /\ \A k \in DOMAIN pendingLeaves :
         RescheduledToMatch(leaveCallSent(Cur, pendingLeaves[k].reason))
    /\ \A userId \in RemoteUsers :
         getParticipantById(Cur, userId) # 0 =>
           RescheduledToMatch(deleteParticipant(Cur, userId, "none"))

\* in a group call that has not been torn down the pending heartbeat timer
\* matches the connection status
C17_TimerMatchesConnection == (isGroup /\ Live) => MatchesConnection(Cur)

IsGroupCheckSend(e) == e = <<"send", "GROUP_CHECK", "all">>
IsLeaveCall(e) == e[1] = "leaveCall"

\* C18: when a send-check timer fires and a participant remains, exactly one
\* group-check message is sent and a new heartbeat timer is scheduled; when
\* none remains, no group-check message is sent, the handler schedules no
\* timer, and leaveCall is invoked with reason OTHER_USER.
C18_SendGroupCheckTimeout ==
  timers.send > 0 =>
    \A random \in RandomNumbers :
      LET r == _onSendGroupCheckTimeout(
                 [firedGroupCheck(Cur, "send") EXCEPT !.random = random],
                 groupCheckTimer.timeout)
      IN  IF participants # <<>>
            THEN /\ Cardinality(LogIndexes(r, IsGroupCheckSend)) = 1
                 /\ Rescheduled(r)
                 /\ r.timers.send + r.timers.verify = 1
                 /\ LogIndexes(r, IsLeaveCall) = {}
            ELSE /\ LogIndexes(r, IsGroupCheckSend) = {}
                 /\ ~Rescheduled(r)
                 /\ r.timers.send + r.timers.verify = 0
                 /\ r.log[1].e = <<"leaveCall", OTHER_USER>>
                 /\ Cardinality(LogIndexes(r, IsLeaveCall)) = 1

\* C18 witness: a connected group call whose participants have all gone, with
\* the send-check timer pending; when it fires the call is left and deleted
C18_Witness ==
  /\ timers.send > 0
  /\ isConnected
  /\ participants = <<>>
  /\ LET r == _onSendGroupCheckTimeout(firedGroupCheck(Cur, "send"),
                                       groupCheckTimer.timeout)
     IN  /\ r.log[1].e = <<"leaveCall", OTHER_USER>>
         /\ r.state = ENDED

\* C19: for a call that is not connected the heartbeat scheduled is a
\* verification timeout of ACTIVITY_TIMEOUT = 120 seconds; when it fires the
\* call is deactivated with reason GROUP_CHECK and deleted, however many
\* participants remain, and no heartbeat timer is pending afterwards.
C19_VerifyGroupCheckTimeout ==
  /\ ~isConnected =>
       LET r == scheduleGroupCheck(Cur)
       IN  /\ r.groupCheckTimeoutId = "verify"
           /\ r.timers.verify = 1
           /\ r.groupCheckTimer.delay = 120 * 1000
  /\ timers.verify > 0 =>
       /\ groupCheckTimer.delay = 120 * 1000
       /\ LET r == _onVerifyGroupCheckTimeout(firedGroupCheck(Cur, "verify"))
          IN  /\ Logged(r, <<"deactivateCall", FALSE, GROUP_CHECK>>)
              /\ r.ret
              /\ r.state = ENDED
              /\ r.deleteCount = Inc(deleteCount)
              /\ ~Rescheduled(r)
              /\ r.timers.send = 0
              /\ r.timers.verify = 0

\* C19 witness: a group call that is not connected and has two participants,
\* with the verification timer pending; when it fires the call is deleted
C19_Witness ==
  /\ timers.verify > 0
  /\ ~isConnected
  /\ Len(participants) = 2
  /\ _onVerifyGroupCheckTimeout(firedGroupCheck(Cur, "verify")).state = ENDED

\* C20: every send-check timer is given a delay from 60 to 90 seconds, and the
\* delay given to the timer, in milliseconds, is the number of seconds handed
\* to the handler when it fires.
C20_SendDelay ==
  /\ timers.send > 0 =>
       /\ groupCheckTimer.timeout \in 60..90
       /\ groupCheckTimer.delay = groupCheckTimer.timeout * 1000
  /\ \A random \in RandomNumbers :
       LET r == _setSendGroupCheckTimeout([Cur EXCEPT !.random = random])
       IN  /\ r.groupCheckTimer.timeout \in 60..90
           /\ r.groupCheckTimer.delay = r.groupCheckTimer.timeout * 1000

\* C20 witness: a send-check timer pending with the longest delay
C20_Witness ==
  /\ timers.send > 0
  /\ groupCheckTimer = [delay |-> 90000, timeout |-> 90]

---------------------------------------------------------------------------
(* Properties of the teardown and of the ring tone *)

\* C21: once the state is ENDED no timer of the call is pending (no heartbeat
\* timer, no state timer, no duration interval) and the flow of every
\* participant is reset, whether deleteCall was reached through deactivateCall
\* or invoked directly.
C21_NoTimerAfterTeardown ==
  state = ENDED =>
    /\ timers = NoTimers
    /\ \A i \in DOMAIN participants : ~participants[i].flowActive

\* a deactivateCall that deletes the call leaves no timer pending
C21_DeactivateCallClearsTimers ==
  \A fromSelf \in BOOLEAN, reason \in Reasons :
    LET r == deactivateCall(Cur, fromSelf, reason)
    IN  r.ret => r.timers = NoTimers

\* a ring tone plays in c exactly when it should after a change to state s
RingsAsItShould(c, s, away) ==
  IF s \in UNANSWERED
    THEN (AudioOf(s = INCOMING) \in c.ringing) = ~(s = INCOMING /\ away)
    ELSE c.ringing = {}

\* C22: a change of the state to INCOMING or OUTGOING starts the looping ring
\* tone, except for INCOMING while the self user is away; a change to any other
\* state stops it, and no ring tone plays in a state that is not unanswered.
C22_RingTone ==
  /\ state \notin UNANSWERED => ringing = {}
  /\ state = INCOMING => ringing \subseteq {"INCOMING_CALL"}
  /\ state = OUTGOING => ringing \subseteq {"OUTGOING_CALL"}
  /\ \A s \in CALL_STATE, away \in BOOLEAN :
       <<state, s>> \in ExternalEdges =>
         RingsAsItShould(setState([Cur EXCEPT !.isUserAway = away], s), s, away)
  /\ RingsAsItShould(joinCall(Cur), joinCall(Cur).state, FALSE)
  /\ RingsAsItShould(rejectCall(Cur, FALSE), REJECTED, FALSE)
  /\ RingsAsItShould(deleteCall(Cur), ENDED, FALSE)

\* C22 witness: an outgoing call that rings, and stops ringing when joinCall
\* moves it to CONNECTING
C22_Witness ==
  /\ state = OUTGOING
  /\ ringing = {"OUTGOING_CALL"}
  /\ joinCall(Cur).state = CONNECTING
  /\ joinCall(Cur).ringing = {}

---------------------------------------------------------------------------
(* The panning of the participants.  A group call whose participants join, *)
(* leave and are sorted by panning; everything else of the call rests.     *)

\* most participants of the call whose panning is calculated
MaxPanningParticipants == 4

PanningUsers == {UserIds[k] : k \in 1..MaxPanningParticipants}

InitPanning == Init /\ isGroup = TRUE

PanningAddParticipant ==
  \E userId \in PanningUsers :
    /\ getParticipantById(Cur, userId) = 0
    /\ Len(participants) < MaxPanningParticipants
    /\ Commit(_addParticipantResolved(Cur, [id |-> userId, negotiate |-> FALSE], NoMessage))

PanningDeleteParticipant ==
  \E userId \in PanningUsers :
    /\ getParticipantById(Cur, userId) # 0
    /\ Commit(deleteParticipant(Cur, userId, "none"))

SortParticipantsByPanning ==
  /\ participants # <<>>
  /\ Commit(_sortParticipantsByPanning(Cur))

NextPanning ==
  \/ PanningAddParticipant
  \/ PanningDeleteParticipant
  \/ SortParticipantsByPanning

SpecPanning == InitPanning /\ [][NextPanning]_vars

\* the participants of r are ordered by hash and panned by position
PannedByPosition(r) ==
  LET n == Len(r.participants)
      panning(i) == r.participants[i + 1].panning
  IN  /\ \A i \in 0..(n - 2) :
           r.participants[i + 1].joaatHash <= r.participants[i + 2].joaatHash
      /\ \A i \in 0..(n - 1) :
           /\ panning(i) = Rat(2 * i - (n - 1), n + 1)
           /\ panning(i) = RatNeg(panning(n - 1 - i))
           /\ ~RatLess(panning(i), RatInt(-1))
           /\ ~RatLess(RatInt(1), panning(i))
      /\ \A i \in 0..(n - 2) : RatLess(panning(i), panning(i + 1))
      /\ n = 1 => panning(0) = RatInt(0)

\* C23: after _sortParticipantsByPanning the participants are ordered by
\* ascending joaatHash and the one at position i of n has panning
\* (2i - (n-1))/(n+1): strictly increasing, symmetric around 0, within [-1, 1],
\* and 0 for a single participant.
C23_Panning == PannedByPosition(_sortParticipantsByPanning(Cur))

\* with two or more participants the panning is as C23 says
C23_PanningOfTwoOrMore ==
  Len(participants) >= 2 => PannedByPosition(_sortParticipantsByPanning(Cur))


---------------------------------------------------------------------------
(* BackendClient: the request queue and the connectivity guard            *)
(* (src/script/util/messageComparator.ts)                                 *)

MaxRequests == 5            \* requests given to sendRequest
MaxSkipRetry == 1           \* pending requests whose configuration has skipRetry

concurrent == 4

\* BackendClientError.STATUS_CODE and the labels of a 403 response body; a
\* response is the label of its body, "undefined" when there is no body.
IGNORED_BACKEND_ERRORS ==
  {"BAD_GATEWAY", "CONFLICT", "CONNECTIVITY_PROBLEM", "INTERNAL_SERVER_ERROR",
   "NOT_FOUND", "PRECONDITION_FAILED", "REQUEST_TIMEOUT", "REQUEST_TOO_LARGE",
   "TOO_MANY_REQUESTS"}
IGNORED_BACKEND_LABELS ==
  {"invalid-credentials", "password-exists", "too-many-clients", "too-many-members",
   "unknown-client"}
SUCCESS_CODES == {"ACCEPTED", "CREATED", "NO_CONTENT", "OK"}
STATUS_CODE ==
  IGNORED_BACKEND_ERRORS \cup SUCCESS_CODES
    \cup {"UNAUTHORIZED", "FORBIDDEN", "BAD_REQUEST"}
Responses == IGNORED_BACKEND_LABELS \cup {"undefined", "access-denied"}

\* The fields of the client.  numberOfRequests only feeds telemetry and the
\* request id of a report; it is counted from the start of each step.
BCur ==
  [connectivityTimeout |-> connectivityTimeout, connectivityQueue |-> connectivityQueue,
   requestQueue |-> requestQueue, queueState |-> queueState,
   queueTimeout |-> queueTimeout, accessToken |-> accessToken,
   configs |-> configs, promises |-> promises, inFlight |-> inFlight,
   numberOfRequests |-> 0, outcomes |-> <<>>, renew |-> 0, raygun |-> <<>>]

BCommit(b) ==
  /\ connectivityTimeout' = b.connectivityTimeout
  /\ connectivityQueue' = b.connectivityQueue
  /\ requestQueue' = b.requestQueue
  /\ queueState' = b.queueState
  /\ queueTimeout' = b.queueTimeout
  /\ accessToken' = b.accessToken
  /\ configs' = b.configs
  /\ promises' = b.promises
  /\ inFlight' = b.inFlight
  /\ UNCHANGED callVars
  /\ UNCHANGED verificationVars
  /\ UNCHANGED clientVars

\* _sendRequest up to the AJAX call: counts the request and sends it.
_sendRequest(b, config) ==
  [b EXCEPT !.numberOfRequests = @ + 1, !.inFlight = @ \cup {config}]

\* PromiseQueue.execute: runs the entries at the head of the queue while the
\* queue is not paused and fewer than `concurrent` requests are in flight.
RECURSIVE execute(_)
execute(b) ==
  IF \/ b.requestQueue.paused
     \/ b.requestQueue.queue = <<>>
     \/ Cardinality(b.inFlight) >= concurrent
  THEN b
  ELSE execute(_sendRequest([b EXCEPT !.requestQueue.queue = Tail(@)],
                            Head(b.requestQueue.queue).config))

push(b, entry) == execute([b EXCEPT !.requestQueue.queue = Append(@, entry)])

unshift(b, entry) == execute([b EXCEPT !.requestQueue.queue = <<entry>> \o @])

pause(b, shouldPause) ==
  LET p == [b EXCEPT !.requestQueue.paused = shouldPause]
  IN  IF shouldPause THEN p ELSE execute(p)

resume(b) == pause(b, FALSE)

getLength(b) == Len(b.requestQueue.queue)

\* The promise of a request settles once, with the outcome given; the client
\* then holds nothing of the request any more, and the queue runs its next
\* entry.
NoConfig == [skipRetry |-> FALSE]

settle(b, config, outcome, value) ==
  LET called == [b EXCEPT !.outcomes = Append(@, [config |-> config,
                                                   outcome |-> outcome,
                                                   value |-> value])]
  IN  IF b.promises[config] = "pending"
      THEN execute([called EXCEPT !.promises[config] = "settled",
                                  !.configs[config] = NoConfig])
      ELSE called

executeRequestQueue(b) ==
  LET b1 == [b EXCEPT !.queueState = READY]
  IN  IF b1.accessToken # "" /\ getLength(b1) > 0 THEN resume(b1) ELSE b1

\* connectivityQueue.pause(false): each queued promise resolves, and each
\* was chained with executeRequestQueue by the failure handler.  Running
\* executeRequestQueue again at once changes nothing, so the queue is kept
\* as whether any promise waits on it.
connectivityQueueExecute(b) ==
  IF b.connectivityQueue.paused \/ ~b.connectivityQueue.waiting
  THEN b
  ELSE executeRequestQueue([b EXCEPT !.connectivityQueue.waiting = FALSE])

_resetQueue(b) ==
  LET b1 == IF b.connectivityTimeout # "undefined"
            THEN connectivityQueueExecute([b EXCEPT !.connectivityQueue.paused = FALSE])
            ELSE b
  IN  [b1 EXCEPT !.connectivityTimeout = "undefined"]

\* The timer fired: the status request is sent, the handle is kept.
_checkStatus(b) == [b EXCEPT !.connectivityTimeout = "fired"]

_checkStatusDone(b) == _resetQueue(b)

_checkStatusFail(b, readyState) ==
  IF readyState = 4
  THEN _resetQueue(b)
  ELSE [b EXCEPT !.connectivityQueue.paused = TRUE, !.connectivityTimeout = "pending"]

executeOnConnectivity(b) ==
  LET b1 == [b EXCEPT !.connectivityQueue = [waiting |-> TRUE, paused |-> TRUE]]
  IN  IF b1.connectivityTimeout = "undefined"
      THEN [b1 EXCEPT !.connectivityTimeout = "pending"]
      ELSE b1

clearQueueUnblockTimeout(b) ==
  IF b.queueTimeout # "undefined" THEN [b EXCEPT !.queueTimeout = "undefined"] ELSE b

scheduleQueueUnblock(b) ==
  [clearQueueUnblockTimeout(b) EXCEPT !.queueTimeout = "pending"]

\* The callback of the unblock timer.
queueUnblock(b) ==
  LET b1 == [b EXCEPT !.queueTimeout = "fired"]
  IN  IF b1.queueState = ACCESS_TOKEN_REFRESH
      THEN [b1 EXCEPT !.queueState = READY]
      ELSE b1

\* Faulty variant: the request is sent at once, past the queue.
sendRequest_Direct(b, config) ==
  _sendRequest([b EXCEPT !.configs = Append(@, config), !.promises = Append(@, "pending")],
               Len(b.configs) + 1)

sendRequest(b, config) ==
  LET id == Len(b.configs) + 1
      b1 == [b EXCEPT !.configs = Append(@, config), !.promises = Append(@, "pending")]
  IN  push(b1, [config |-> id, prepended |-> FALSE])

\* Faulty variant: the caller's promise is rejected when the request is
\* put back on the queue.
_prependRequestQueue_Reject(b, config) ==
  unshift(pause([b EXCEPT !.outcomes = Append(@, [config |-> config,
                                                   outcome |-> "rejected",
                                                   value |-> <<"retry">>])],
                TRUE),
          [config |-> config, prepended |-> TRUE])

_prependRequestQueue(b, config) ==
  unshift(pause(b, TRUE), [config |-> config, prepended |-> TRUE])

\* The auth collaborator, subscribed to ACCESS_TOKEN.RENEW: it starts a
\* refresh, moves the queue state and arms the unblock timer.
renewAccessToken(b) ==
  scheduleQueueUnblock([b EXCEPT !.queueState = ACCESS_TOKEN_REFRESH])

\* amplify.publish(ACCESS_TOKEN.RENEW, trigger): the subscriber runs at once.
publishRenew(b) == renewAccessToken([b EXCEPT !.renew = @ + 1])

\* The refresh completed: the token is stored and the queue executed.
accessTokenRenewed(b) ==
  executeRequestQueue(clearQueueUnblockTimeout([b EXCEPT !.accessToken = "token"]))

\* Raygun.send(error, customData): the request stands for its endpoint
\* (config.url), its method (config.type) and the requestId of its jqXHR.
Raygun(b, config, statusCode) ==
  [b EXCEPT !.raygun = Append(@, [endpoint |-> config, method |-> config,
                                  requestId |-> config, status |-> statusCode])]

\* What the promise is rejected with: response || new BackendClientError(statusCode).
Rejection(statusCode, response) ==
  IF response # "undefined" THEN <<"response", response>>
                            ELSE <<"BackendClientError", statusCode>>

_sendRequestDone(b, config) ==
  settle([b EXCEPT !.inFlight = @ \ {config}], config, "resolved", <<"responseData">>)

\* Faulty variant: an empty 2xx failure is rejected like any other failure.
_sendRequestFail_RejectEmpty(b, config, statusCode, response) ==
  LET b0 == [b EXCEPT !.inFlight = @ \ {config}]
  IN  IF statusCode = "CONNECTIVITY_PROBLEM"
      THEN executeOnConnectivity(
             _prependRequestQueue([b0 EXCEPT !.queueState = CONNECTIVITY_PROBLEM], config))
      ELSE settle(b0, config, "rejected", Rejection(statusCode, response))

\* Faulty variant: a 401 is retried whatever the configuration says.
_sendRequestFail_AlwaysRetry(b, config, statusCode, response) ==
  LET b0 == [b EXCEPT !.inFlight = @ \ {config}]
  IN  IF statusCode = "UNAUTHORIZED"
      THEN publishRenew(_prependRequestQueue(b0, config))
      ELSE settle(b0, config, "rejected", Rejection(statusCode, response))

_sendRequestFail(b, config, statusCode, response) ==
  LET b0 == [b EXCEPT !.inFlight = @ \ {config}]
      rejected(x) == settle(x, config, "rejected", Rejection(statusCode, response))
  IN  CASE statusCode = "CONNECTIVITY_PROBLEM" ->
             executeOnConnectivity(
               _prependRequestQueue([b0 EXCEPT !.queueState = CONNECTIVITY_PROBLEM],
                                    config))
        [] statusCode = "FORBIDDEN" ->
             IF response # "undefined" /\ response \notin IGNORED_BACKEND_LABELS
             THEN rejected(Raygun(b0, config, statusCode))
             ELSE rejected(b0)
        [] statusCode \in SUCCESS_CODES ->
             IF response = "undefined" THEN settle(b0, config, "resolved", <<"{}">>)
                                       ELSE rejected(b0)
        [] statusCode = "UNAUTHORIZED" /\ ~b.configs[config].skipRetry ->
             publishRenew(_prependRequestQueue(b0, config))
        [] OTHER ->
             IF statusCode \notin IGNORED_BACKEND_ERRORS
             THEN rejected(Raygun(b0, config, statusCode))
             ELSE rejected(b0)

(* Actions of the backend client: one per macrotask                       *)

SendRequest ==
  \E skipRetry \in BOOLEAN :
    /\ Len(configs) < MaxRequests
    /\ skipRetry =>
         Cardinality({id \in DOMAIN configs : configs[id].skipRetry}) < MaxSkipRetry
    /\ BCommit(sendRequest(BCur, [skipRetry |-> skipRetry]))

AjaxDone ==
  \E config \in inFlight : BCommit(_sendRequestDone(BCur, config))

\* The failures a request can end with: the body of the response is read
\* for its label on FORBIDDEN and for its presence on a 2xx status.
Failures ==
  {<<statusCode, "undefined">> :
     statusCode \in {"CONNECTIVITY_PROBLEM", "UNAUTHORIZED", "FORBIDDEN", "OK",
                     "NO_CONTENT", "NOT_FOUND", "BAD_REQUEST"}}
    \cup {<<"FORBIDDEN", response>> : response \in {"invalid-credentials", "access-denied"}}
    \cup {<<"OK", "access-denied">>}

AjaxFail ==
  \E config \in inFlight, failure \in Failures :
    BCommit(_sendRequestFail(BCur, config, failure[1], failure[2]))

CheckStatus ==
  /\ connectivityTimeout = "pending"
  /\ BCommit(_checkStatus(BCur))

CheckStatusDone ==
  /\ connectivityTimeout = "fired"
  /\ BCommit(_checkStatusDone(BCur))

CheckStatusFail ==
  \E readyState \in {0, 4} :
    /\ connectivityTimeout = "fired"
    /\ BCommit(_checkStatusFail(BCur, readyState))

QueueUnblock ==
  /\ queueTimeout = "pending"
  /\ BCommit(queueUnblock(BCur))

SaveAccessToken ==
  /\ accessToken = ""
  /\ BCommit([BCur EXCEPT !.accessToken = "token"])

AccessTokenRenewed ==
  /\ queueTimeout # "undefined"
  /\ BCommit(accessTokenRenewed(BCur))

NextBackend ==
  \/ SendRequest
  \/ AjaxDone
  \/ AjaxFail
  \/ CheckStatus
  \/ CheckStatusDone
  \/ CheckStatusFail
  \/ QueueUnblock
  \/ SaveAccessToken
  \/ AccessTokenRenewed

InitBackend == Init /\ isGroup = FALSE

SpecBackend == InitBackend /\ [][NextBackend]_vars

TypeBackend ==
  /\ queueState \in QUEUE_STATE
  /\ inFlight \subseteq 1..Len(configs)
  /\ Len(promises) = Len(configs)


---------------------------------------------------------------------------
(* Claims about the request queue                                         *)

Waiting == requestQueue.queue

Retry(config) == [config |-> config, prepended |-> TRUE]

IsSuffix(s, t) ==
  /\ Len(s) <= Len(t)
  /\ \A k \in 1..Len(s) : s[k] = t[Len(t) - Len(s) + k]

ReenqueuedAtFront(r, config) ==
  /\ r.requestQueue.paused
  /\ r.requestQueue.queue = <<Retry(config)>> \o Waiting
  /\ r.inFlight = inFlight \ {config}
  /\ r.promises[config] = "pending"
  /\ r.outcomes = <<>>

\* C25 (lemma): a connectivity failure sets the queue state to
\* CONNECTIVITY_PROBLEM, pauses the queue, leaves the caller's promise
\* pending and puts the failed request in front of the waiting ones, whose
\* order is kept; when the status probe is answered while the queue is
\* paused and a token is stored, the request at the front is sent again.
C25_ConnectivityFailure ==
  /\ \A config \in inFlight, response \in Responses :
       LET r == _sendRequestFail(BCur, config, "CONNECTIVITY_PROBLEM", response)
       IN  /\ r.queueState = CONNECTIVITY_PROBLEM
           /\ ReenqueuedAtFront(r, config)
           /\ r.connectivityTimeout # "undefined"
           /\ r.connectivityQueue.paused
  /\ /\ connectivityTimeout = "fired"
     /\ requestQueue.paused
     /\ accessToken # ""
     /\ Waiting # <<>>
     => LET r == _checkStatusDone(BCur)
        IN  /\ r.queueState = READY
            /\ Head(Waiting).config \in r.inFlight

\* C25: a request that failed with a connectivity problem is the first to be
\* sent again after recovery, whatever completes in the meantime.
C25_FirstToRedispatch ==
  \A config \in inFlight :
    LET r1 == _sendRequestFail(BCur, config, "CONNECTIVITY_PROBLEM", "undefined")
    IN  \A other \in r1.inFlight, statusCode \in STATUS_CODE :
          LET r2 == _sendRequestFail(r1, other, statusCode, "undefined")
          IN  Head(r2.requestQueue.queue) = Retry(config)

\* The client after the pending status probe was answered: the request
\* done, or failed with an HTTP response.
ProbeAnswered == {_checkStatusDone(BCur), _checkStatusFail(BCur, 4)}

\* C26: once the status probe is answered, queueState is READY and the
\* request queue is running again.
C26_ResumedAfterProbe ==
  connectivityTimeout = "fired" =>
    \A r \in ProbeAnswered : r.queueState = READY /\ ~r.requestQueue.paused

\* C26 (lemma): a probe is pending from the connectivity failure on; a probe
\* that fails without a response is repeated; an answered probe sets
\* queueState to READY, ends the polling and, when an access token is
\* stored, leaves the queue running with every free slot used.
C26_Polling ==
  /\ connectivityQueue.waiting => connectivityTimeout # "undefined"
  /\ connectivityTimeout = "fired" =>
       /\ LET r == _checkStatusFail(BCur, 0)
          IN  /\ r.connectivityTimeout = "pending"
              /\ r.requestQueue = requestQueue
              /\ r.queueState = queueState
       /\ \A r \in ProbeAnswered :
            /\ r.queueState = READY
            /\ r.connectivityTimeout = "undefined"
            /\ ~r.connectivityQueue.waiting
            /\ accessToken # "" =>
                 /\ ~r.requestQueue.paused
                 /\ \/ r.requestQueue.queue = <<>>
                    \/ Cardinality(r.inFlight) = concurrent

\* C27: a 401 failure of a request without skipRetry pauses the queue, puts
\* the request in front of the waiting ones, asks the auth collaborator for
\* a token renewal once and leaves the caller's promise pending; with
\* skipRetry the caller's promise is rejected, no renewal is asked, the
\* pause of the queue is left as it was and nothing is put on the queue: the
\* waiting requests stay as they are, but for those sent because the failed
\* request left its slot.
C27_Unauthorized ==
  \A config \in inFlight, response \in Responses :
    LET r == _sendRequestFail(BCur, config, "UNAUTHORIZED", response)
    IN  IF ~configs[config].skipRetry
        THEN /\ ReenqueuedAtFront(r, config)
             /\ r.renew = 1
        ELSE /\ Len(r.outcomes) = 1
             /\ r.outcomes[1].config = config
             /\ r.outcomes[1].outcome = "rejected"
             /\ r.promises[config] = "settled"
             /\ r.renew = 0
             /\ r.queueState = queueState
             /\ r.requestQueue.paused = requestQueue.paused
             /\ IsSuffix(r.requestQueue.queue, Waiting)
             /\ requestQueue.paused => r.requestQueue.queue = Waiting
             /\ \A k \in 1..Len(r.requestQueue.queue) :
                  r.requestQueue.queue[k].config # config

\* Reached by a 401 failure without skipRetry while a request with skipRetry
\* is in flight.
C27_Witness ==
  /\ requestQueue.paused
  /\ queueState = ACCESS_TOKEN_REFRESH
  /\ queueTimeout = "pending"
  /\ Waiting # <<>>
  /\ Head(Waiting).prepended
  /\ \E config \in inFlight : configs[config].skipRetry

\* C28: when the unblock timer fires during ACCESS_TOKEN_REFRESH, queueState
\* is reset to READY and the queue runs again: it is not paused, so the
\* requests held back are sent as far as slots are free.
C28_WatchdogUnblocks ==
  queueTimeout = "pending" /\ queueState = ACCESS_TOKEN_REFRESH =>
    LET r == queueUnblock(BCur)
    IN  /\ r.queueState = READY
        /\ ~r.requestQueue.paused
        /\ r.requestQueue.queue = <<>> \/ Cardinality(r.inFlight) = concurrent

\* C28 (lemma): the unblock timer is armed whenever queueState is
\* ACCESS_TOKEN_REFRESH, and its callback resets that state to READY.
C28_WatchdogResetsState ==
  /\ queueState = ACCESS_TOKEN_REFRESH => queueTimeout = "pending"
  /\ queueTimeout = "pending" /\ queueState = ACCESS_TOKEN_REFRESH =>
       queueUnblock(BCur).queueState = READY

\* C29: the request queue is paused exactly when queueState is not READY.
C29_PausedIffNotReady ==
  requestQueue.paused <=> queueState # READY

\* C29 (lemma): while queueState is not READY the queue is paused, and no
\* operation of the client sends a request from such a state unless it
\* first sets queueState to READY.
C29_NoDispatchUnlessReady ==
  /\ queueState # READY => requestQueue.paused
  /\ queueState # READY =>
       /\ \A skipRetry \in BOOLEAN :
            sendRequest(BCur, [skipRetry |-> skipRetry]).inFlight = inFlight
       /\ \A config \in inFlight, statusCode \in STATUS_CODE, response \in Responses :
            /\ _sendRequestFail(BCur, config, statusCode, response).inFlight \subseteq inFlight
            /\ _sendRequestDone(BCur, config).inFlight \subseteq inFlight
       /\ queueUnblock(BCur).inFlight = inFlight
       /\ _checkStatusFail(BCur, 0).inFlight = inFlight

\* C30: on the queue the re-enqueued requests stand before the normal
\* submissions, and within each kind the requests stand in the order of
\* their submission.
C30_SubmissionOrder ==
  \A j, k \in DOMAIN Waiting :
    j < k =>
      /\ Waiting[k].prepended => Waiting[j].prepended
      /\ Waiting[j].prepended = Waiting[k].prepended =>
           Waiting[j].config < Waiting[k].config

\* C30 (lemma): re-enqueued requests stand before the normal submissions,
\* normal submissions stand in the order of their submission, and the queue
\* always sends the request at its head.
C30_FifoOfSubmissions ==
  /\ \A j, k \in DOMAIN Waiting :
       j < k =>
         /\ Waiting[k].prepended => Waiting[j].prepended
         /\ ~Waiting[j].prepended => Waiting[j].config < Waiting[k].config
  /\ \A config \in inFlight :
       LET r == _sendRequestDone(BCur, config)
       IN  IsSuffix(r.requestQueue.queue, Waiting)

\* C31: a failure with a 2xx status (OK, CREATED, ACCEPTED, NO_CONTENT) and
\* no response body resolves the promise of the request with {}, rejects
\* nothing and reports nothing to Raygun.
C31_EmptySuccess ==
  \A config \in inFlight, statusCode \in SUCCESS_CODES :
    LET r == _sendRequestFail(BCur, config, statusCode, "undefined")
    IN  /\ r.outcomes = <<[config |-> config, outcome |-> "resolved", value |-> <<"{}">>]>>
        /\ r.promises[config] = "settled"
        /\ r.raygun = <<>>
        /\ r.queueState = queueState
        /\ r.requestQueue.paused = requestQueue.paused

C31_Witness ==
  /\ Cardinality(inFlight) = concurrent
  /\ Waiting # <<>>
  /\ ~requestQueue.paused
  /\ \E config \in inFlight :
       LET r == _sendRequestFail(BCur, config, "NO_CONTENT", "undefined")
       IN  /\ r.outcomes[1].value = <<"{}">>
           /\ Head(Waiting).config \in r.inFlight

\* A failure the client expects: its status code is ignored, or it is a 403
\* whose label is ignored.
Ignored(statusCode, response) ==
  \/ statusCode \in IGNORED_BACKEND_ERRORS
  \/ statusCode = "FORBIDDEN" /\ response \in IGNORED_BACKEND_LABELS

IsRejected(r, config) ==
  \E k \in DOMAIN r.outcomes :
    r.outcomes[k].config = config /\ r.outcomes[k].outcome = "rejected"

ReportOf(config, statusCode) ==
  [endpoint |-> config, method |-> config, requestId |-> config, status |-> statusCode]

\* C32: a failed request is reported to Raygun exactly when it ends in a
\* rejection and is not expected, and then once, with its endpoint, method
\* and request id.
C32_EscalatedIffUnexpected ==
  \A config \in inFlight, statusCode \in STATUS_CODE, response \in Responses :
    LET r == _sendRequestFail(BCur, config, statusCode, response)
    IN  IF IsRejected(r, config) /\ ~Ignored(statusCode, response)
        THEN r.raygun = <<ReportOf(config, statusCode)>>
        ELSE r.raygun = <<>>

\* C32 (lemma): expected failures and failures that do not reject are never
\* reported; a rejection is reported once, with its endpoint, method and
\* request id, unless it is expected, a 403 without a response body, or a
\* 2xx failure with a response body.
C32_Escalation ==
  \A config \in inFlight, statusCode \in STATUS_CODE, response \in Responses :
    LET r == _sendRequestFail(BCur, config, statusCode, response)
        silent == \/ Ignored(statusCode, response)
                  \/ statusCode = "FORBIDDEN" /\ response = "undefined"
                  \/ statusCode \in SUCCESS_CODES
    IN  IF IsRejected(r, config) /\ ~silent
        THEN r.raygun = <<ReportOf(config, statusCode)>>
        ELSE r.raygun = <<>>

OnQueue(q) == {q[k].config : k \in DOMAIN q}

\* The calls of resolve and reject a completion of the request makes.
SettledOnce(r, config, outcome, value) ==
  /\ r.outcomes = <<[config |-> config, outcome |-> outcome, value |-> value]>>
  /\ r.promises[config] = "settled"
  /\ config \notin r.inFlight \cup OnQueue(r.requestQueue.queue)

\* C38: the promise of a request is settled at most once.  A pending
\* promise has exactly one attempt outstanding, in flight or on the queue,
\* and a settled one has none.  The completion of an attempt, the first or
\* a retry, either settles the promise once (resolved with the response
\* data, or with {} for an empty 2xx failure; rejected with the response
\* body or a BackendClientError of the status code) or, on a connectivity
\* failure or a 401 without skipRetry, leaves it pending with the request
\* back on the queue.
C38_SettledOnce ==
  /\ \A id \in DOMAIN promises :
       (promises[id] = "pending") <=> (id \in inFlight \cup OnQueue(Waiting))
  /\ inFlight \cap OnQueue(Waiting) = {}
  /\ Cardinality(OnQueue(Waiting)) = Len(Waiting)
  /\ \A config \in inFlight :
       /\ SettledOnce(_sendRequestDone(BCur, config), config, "resolved", <<"responseData">>)
       /\ \A statusCode \in STATUS_CODE, response \in Responses :
            LET r == _sendRequestFail(BCur, config, statusCode, response)
            IN  IF \/ statusCode = "CONNECTIVITY_PROBLEM"
                   \/ statusCode = "UNAUTHORIZED" /\ ~configs[config].skipRetry
                THEN /\ r.outcomes = <<>>
                     /\ r.promises[config] = "pending"
                     /\ config \in OnQueue(r.requestQueue.queue)
                     /\ config \notin r.inFlight
                ELSE IF statusCode \in SUCCESS_CODES /\ response = "undefined"
                THEN SettledOnce(r, config, "resolved", <<"{}">>)
                ELSE SettledOnce(r, config, "rejected",
                                 IF response = "undefined"
                                 THEN <<"BackendClientError", statusCode>>
                                 ELSE <<"response", response>>)

\* A retry stands at the head of the paused queue; once the probe is
\* answered it is sent again, and its completion settles the promise.
C38_Witness ==
  /\ connectivityTimeout = "fired"
  /\ requestQueue.paused
  /\ accessToken # ""
  /\ Waiting # <<>>
  /\ Head(Waiting).prepended
  /\ LET config == Head(Waiting).config
         r1 == _checkStatusDone(BCur)
     IN  /\ promises[config] = "pending"
         /\ config \in r1.inFlight
         /\ _sendRequestDone([r1 EXCEPT !.outcomes = <<>>], config).outcomes =
              <<[config |-> config, outcome |-> "resolved", value |-> <<"responseData">>]>>

\* C35: however leaveCall (by the user, through participantLeft or from the
\* send-check timer without participants) and deactivateCall interleave on
\* a call, the call is deleted at most once and at most one deactivation
\* event is injected.
C35_DeletedAtMostOnce == deleteCount <= 1 /\ eventCount <= 1

\* what the callback of a pending send-check timer does when it fires now
SendGroupCheckFired(random) ==
  _onSendGroupCheckTimeout([firedGroupCheck(Cur, "send") EXCEPT !.random = random],
                           groupCheckTimer.timeout)

SendsGroupCheck(r) == Logged(r, <<"send", "GROUP_CHECK", "all">>)

\* C36: a group-check message is sent only when, at the moment the
\* send-check timer fires, the call is connected and has at least one
\* participant; none is sent after the self client has left.
C36_GroupCheckOnlyWhenConnected ==
  timers.send > 0 =>
    \A random \in RandomNumbers :
      SendsGroupCheck(SendGroupCheckFired(random)) =>
        isConnected /\ participants # <<>> /\ selfClientJoined

\* C36 (lemma): a firing send-check timer sends the group check exactly when
\* the call has a participant, and a timer that an operation of the entity
\* has not been torn down under is one of a connected call.
C36_GroupCheckIffParticipants ==
  timers.send > 0 =>
    \A random \in RandomNumbers :
      /\ SendsGroupCheck(SendGroupCheckFired(random)) <=> participants # <<>>
      /\ state # ENDED => isConnected /\ selfClientJoined

\* the state timeout of the call is armed for the unanswered state s and is
\* the only one pending
ArmedFor(r, s) ==
  /\ r.timers.state = 1
  /\ r.stateTimeout = IF s = INCOMING THEN "incoming" ELSE "outgoing"

\* what the callback of the state timeout does to an unanswered call
TimesOut(r, isIncoming) ==
  /\ AudioOf(isIncoming) \notin r.ringing
  /\ IF isIncoming
       THEN IF isGroup
              THEN r.state = REJECTED /\ r.log = <<>>
              ELSE r.log = <<[at |-> state, e |-> <<"publish", "CALL.STATE.DELETE">>]>>
       ELSE r.log = <<[at |-> state, e |-> <<"publish", "CALL.STATE.LEAVE", TIMEOUT>>]>>

StateTimeoutFired ==
  _onStateTimeout([fired(Cur, "state") EXCEPT !.stateTimeout = "fired"],
                  stateTimeout = "incoming")

\* entering the unanswered state s, with the self user away or not, arms
\* the state timeout
EntryArms(s, away) ==
  <<state, s>> \in ExternalEdges =>
    ArmedFor(setState([Cur EXCEPT !.isUserAway = away], s), s)

\* at most one state timeout is pending, it belongs to the unanswered state
\* the call is in, and its callback stops the ring tone and rejects the call
\* or publishes the delete or leave request
OneStateTimeout ==
  /\ timers.state <= 1
  /\ timers.state = 1 =>
       /\ state \in UNANSWERED
       /\ stateTimeout = (IF state = INCOMING THEN "incoming" ELSE "outgoing")
       /\ TimesOut(StateTimeoutFired, state = INCOMING)

\* C37: every time the call enters INCOMING or OUTGOING exactly one state
\* timeout is armed, any previous one being cancelled; when it fires on the
\* unanswered call the ring tone is stopped and the call is rejected
\* (incoming group call), the delete request is published (incoming 1:1
\* call) or the leave request with reason TIMEOUT is published (outgoing).
C37_StateTimeoutArmed ==
  /\ \A s \in UNANSWERED, away \in BOOLEAN : EntryArms(s, away)
  /\ OneStateTimeout

\* C37 (lemma): the same, for every entry but that of an incoming call
\* while the self user is away.
C37_StateTimeoutWhenRinging ==
  /\ \A s \in UNANSWERED, away \in BOOLEAN :
       ~(s = INCOMING /\ away) => EntryArms(s, away)
  /\ OneStateTimeout

---------------------------------------------------------------------------
(* ConversationVerificationStateHandler *)

\* VerificationMessageType
TYPE_VERIFIED == "verified"
TYPE_UNVERIFIED == "unverified"
NEW_DEVICE == "new-device"
NEW_MEMBER == "new-member"

\* selfUser().id and the users the notifications speak of
VerificationUsers == {SelfId, "u1", "u2"}

\* what conversationEntity.is_verified() returns
IsVerifiedValues == {"true", "false", "undefined"}

\* The conversations, with what one call of a handler adds: the events it
\* injects, whether it throws, and the value the last private method returned.
VCur == [conversations |-> conversations, events |-> <<>>, thrown |-> FALSE, ret |-> FALSE]

VCommit(v) ==
  /\ conversations' = v.conversations
  /\ UNCHANGED callVars
  /\ UNCHANGED backendVars
  /\ UNCHANGED clientVars

\* z.conversation.EventBuilder
buildAllVerified(conversationEntity) ==
  [conversation |-> conversationEntity, type |-> TYPE_VERIFIED, userIds |-> {}]

buildDegraded(conversationEntity, userIds, type) ==
  [conversation |-> conversationEntity, type |-> type, userIds |-> userIds]

injectEvent(v, event) == [v EXCEPT !.events = Append(@, event)]

\* faulty variant: a conversation whose verification is not known counts as verified
_willChangeToVerified_Loose(v, conversationEntity) ==
  LET verification_state == v.conversations[conversationEntity].verification_state
  IN  IF verification_state = VERIFIED
        THEN [v EXCEPT !.ret = FALSE]
        ELSE IF v.conversations[conversationEntity].is_verified # "false"
               THEN [v EXCEPT !.conversations[conversationEntity].verification_state = VERIFIED,
                              !.ret = TRUE]
               ELSE [v EXCEPT !.ret = FALSE]

_willChangeToVerified(v, conversationEntity) ==
  LET verification_state == v.conversations[conversationEntity].verification_state
  IN  IF verification_state = VERIFIED
        THEN [v EXCEPT !.ret = FALSE]
        ELSE IF v.conversations[conversationEntity].is_verified = "true"
               THEN [v EXCEPT !.conversations[conversationEntity].verification_state = VERIFIED,
                              !.ret = TRUE]
               ELSE [v EXCEPT !.ret = FALSE]

_willChangeToDegraded(v, conversationEntity, shouldShowDegradationWarning) ==
  LET verification_state == v.conversations[conversationEntity].verification_state
  IN  IF verification_state = DEGRADED
        THEN [v EXCEPT !.ret = FALSE]
        ELSE IF verification_state = VERIFIED /\ v.conversations[conversationEntity].is_verified = "false"
               THEN [v EXCEPT !.conversations[conversationEntity].verification_state =
                                 IF shouldShowDegradationWarning THEN DEGRADED ELSE UNVERIFIED,
                              !.ret = TRUE]
               ELSE [v EXCEPT !.ret = FALSE]

\* faulty variant: the state is changed but no event is injected
_checkChangeToVerified_Silent(v, conversationEntity) ==
  _willChangeToVerified(v, conversationEntity)

_checkChangeToVerified(v, conversationEntity) ==
  LET v1 == _willChangeToVerified(v, conversationEntity)
  IN  IF v1.ret
        THEN [injectEvent(v1, buildAllVerified(conversationEntity)) EXCEPT !.ret = TRUE]
        ELSE [v1 EXCEPT !.ret = FALSE]

\* faulty variant: the error is thrown without resetting the state
_checkChangeToDegraded_NoReset(v, conversationEntity, userIds, type) ==
  LET v1 == _willChangeToDegraded(v, conversationEntity, type # TYPE_UNVERIFIED)
  IN  IF v1.ret
        THEN IF userIds = {}
               THEN [v1 EXCEPT !.thrown = TRUE, !.ret = FALSE]
               ELSE [injectEvent(v1, buildDegraded(conversationEntity, userIds, type))
                       EXCEPT !.ret = TRUE]
        ELSE [v1 EXCEPT !.ret = FALSE]

_checkChangeToDegraded(v, conversationEntity, userIds, type) ==
  LET shouldShowDegradationWarning == type # TYPE_UNVERIFIED
      v1 == _willChangeToDegraded(v, conversationEntity, shouldShowDegradationWarning)
  IN  IF v1.ret
        THEN IF userIds = {}
               THEN [v1 EXCEPT !.conversations[conversationEntity].verification_state = VERIFIED,
                               !.thrown = TRUE,
                               !.ret = FALSE]
               ELSE [injectEvent(v1, buildDegraded(conversationEntity, userIds, type))
                       EXCEPT !.ret = TRUE]
        ELSE [v1 EXCEPT !.ret = FALSE]

\* the conversations the self user and one of the users are active in, each
\* with the users of it that match
_getActiveConversationsWithUsers(v, userIds) ==
  LET info(k) ==
        LET conversationEntity == v.conversations[ConversationIds[k]]
            userIdsInConversation == conversationEntity.participating_user_ids \cup {SelfId}
        IN  [conversationEntity |-> ConversationIds[k],
             removed |-> conversationEntity.removed_from_conversation,
             userIds |-> userIdsInConversation \cap userIds]
      active(i) == ~i.removed /\ i.userIds # {}
  IN  SelectSeq([k \in DOMAIN ConversationIds |-> info(k)], active)

\* the arrow function the handler gives to forEach
callback(v, handler, info) ==
  CASE handler = "onClientVerificationChanged" ->
         LET v1 == _checkChangeToVerified(v, info.conversationEntity)
         IN  IF ~v1.ret
               THEN _checkChangeToDegraded(v1, info.conversationEntity, info.userIds,
                                           TYPE_UNVERIFIED)
               ELSE v1
    [] handler = "onClientsAdded" ->
         _checkChangeToDegraded(v, info.conversationEntity, info.userIds, NEW_DEVICE)
    [] handler = "onClientRemoved" ->
         _checkChangeToVerified(v, info.conversationEntity)
    [] handler = "onClientsUpdated" ->
         LET v1 == _checkChangeToVerified(v, info.conversationEntity)
         IN  IF ~v1.ret
               THEN _checkChangeToDegraded(v1, info.conversationEntity, info.userIds,
                                           NEW_DEVICE)
               ELSE v1

RECURSIVE forEach(_, _, _, _)
\* Array.prototype.forEach: an exception of the callback ends the loop
forEach(v, handler, infos, k) ==
  IF k > Len(infos) \/ v.thrown THEN v
  ELSE forEach(callback(v, handler, infos[k]), handler, infos, k + 1)

onClientVerificationChanged(v, userId) ==
  forEach(v, "onClientVerificationChanged", _getActiveConversationsWithUsers(v, {userId}), 1)

onClientsAdded(v, userIds) ==
  forEach(v, "onClientsAdded", _getActiveConversationsWithUsers(v, userIds), 1)

onClientAdded(v, userId) == onClientsAdded(v, {userId})

onClientRemoved(v, userId) ==
  forEach(v, "onClientRemoved", _getActiveConversationsWithUsers(v, {userId}), 1)

onConversationCreate(v, conversationEntity) == _checkChangeToVerified(v, conversationEntity)

onClientsUpdated(v, userId) ==
  forEach(v, "onClientsUpdated", _getActiveConversationsWithUsers(v, {userId}), 1)

onMemberJoined(v, conversationEntity, userIds) ==
  _checkChangeToDegraded(v, conversationEntity, userIds, NEW_MEMBER)

onMemberLeft(v, conversationEntity) == _checkChangeToVerified(v, conversationEntity)

(* Actions: one per notification the handler is given, and one for what   *)
(* the rest of the application does to a conversation.                    *)

ConversationSet == {ConversationIds[k] : k \in DOMAIN ConversationIds}

\* the clients or members of a conversation change, or the self user is
\* removed from it
ConversationChanged ==
  \E id \in ConversationSet, is_verified \in IsVerifiedValues,
     userIds \in SUBSET (VerificationUsers \ {SelfId}), removed \in BOOLEAN :
    VCommit([VCur EXCEPT !.conversations[id].is_verified = is_verified,
                         !.conversations[id].participating_user_ids = userIds,
                         !.conversations[id].removed_from_conversation = removed])

OnClientVerificationChanged ==
  \E userId \in VerificationUsers : VCommit(onClientVerificationChanged(VCur, userId))

OnClientAdded ==
  \E userId \in VerificationUsers : VCommit(onClientAdded(VCur, userId))

OnClientsAdded ==
  \E userIds \in SUBSET VerificationUsers : VCommit(onClientsAdded(VCur, userIds))

OnClientRemoved ==
  \E userId \in VerificationUsers : VCommit(onClientRemoved(VCur, userId))

OnConversationCreate ==
  \E id \in ConversationSet : VCommit(onConversationCreate(VCur, id))

OnClientsUpdated ==
  \E userId \in VerificationUsers : VCommit(onClientsUpdated(VCur, userId))

OnMemberJoined ==
  \E id \in ConversationSet, userIds \in SUBSET VerificationUsers :
    VCommit(onMemberJoined(VCur, id, userIds))

OnMemberLeft ==
  \E id \in ConversationSet : VCommit(onMemberLeft(VCur, id))

NextVerification ==
  \/ ConversationChanged
  \/ OnClientVerificationChanged
  \/ OnClientAdded
  \/ OnClientsAdded
  \/ OnClientRemoved
  \/ OnConversationCreate
  \/ OnClientsUpdated
  \/ OnMemberJoined
  \/ OnMemberLeft

InitVerification == Init /\ isGroup = FALSE

SpecVerification == InitVerification /\ [][NextVerification]_vars

TypeVerification ==
  \A id \in ConversationSet :
    /\ conversations[id].verification_state \in ConversationVerificationState
    /\ conversations[id].is_verified \in IsVerifiedValues

---------------------------------------------------------------------------
(* Properties of the verification state handler *)

UserHandlers == {"onClientVerificationChanged", "onClientAdded", "onClientRemoved",
                 "onClientsUpdated"}

\* every call of a public method of the handler
Notifications ==
  [handler : UserHandlers,
   userIds : {{userId} : userId \in VerificationUsers}, conversation : {"none"}]
  \cup [handler : {"onClientsAdded"},
        userIds : SUBSET VerificationUsers, conversation : {"none"}]
  \cup [handler : {"onConversationCreate", "onMemberLeft"},
        userIds : {{}}, conversation : ConversationSet]
  \cup [handler : {"onMemberJoined"},
        userIds : SUBSET VerificationUsers, conversation : ConversationSet]

Notify(v, n) ==
  LET userId == CHOOSE u \in n.userIds : TRUE
  IN  CASE n.handler = "onClientVerificationChanged" -> onClientVerificationChanged(v, userId)
        [] n.handler = "onClientAdded" -> onClientAdded(v, userId)
        [] n.handler = "onClientsAdded" -> onClientsAdded(v, n.userIds)
        [] n.handler = "onClientRemoved" -> onClientRemoved(v, userId)
        [] n.handler = "onClientsUpdated" -> onClientsUpdated(v, userId)
        [] n.handler = "onConversationCreate" -> onConversationCreate(v, n.conversation)
        [] n.handler = "onMemberJoined" -> onMemberJoined(v, n.conversation, n.userIds)
        [] n.handler = "onMemberLeft" -> onMemberLeft(v, n.conversation)

\* the users of the notification the conversation is notified for
AffectedUsers(n, id) ==
  IF n.conversation # "none"
    THEN n.userIds
    ELSE (conversations[id].participating_user_ids \cup {SelfId}) \cap n.userIds

\* the notification reaches the conversation
Affected(n, id) ==
  IF n.conversation # "none"
    THEN n.conversation = id
    ELSE ~conversations[id].removed_from_conversation /\ AffectedUsers(n, id) # {}

\* the notification can verify a conversation
CanVerify(n) ==
  n.handler \in {"onClientVerificationChanged", "onClientRemoved", "onConversationCreate",
                 "onClientsUpdated", "onMemberLeft"}

\* the type of degradation the notification can bring, "none" if it cannot
DegradationType(n) ==
  CASE n.handler = "onClientVerificationChanged" -> TYPE_UNVERIFIED
    [] n.handler \in {"onClientAdded", "onClientsAdded", "onClientsUpdated"} -> NEW_DEVICE
    [] n.handler = "onMemberJoined" -> NEW_MEMBER
    [] OTHER -> "none"

\* state VERIFIED while is_verified() is false, notified with no user: the
\* degradation without affected users
Anomaly(n, id) ==
  /\ Affected(n, id)
  /\ DegradationType(n) # "none"
  /\ conversations[id].verification_state = VERIFIED
  /\ conversations[id].is_verified = "false"
  /\ AffectedUsers(n, id) = {}

EventsOf(r, id) == SelectSeq(r.events, LAMBDA e : e.conversation = id)

\* C33: when a conversation is found to change to degraded while the list
\* of affected users is empty, its verification state is set to VERIFIED,
\* no verification event is injected and an error is thrown; no other call
\* throws.
C33_DegradedWithoutUsers ==
  /\ \A n \in Notifications :
       LET r == Notify(VCur, n)
       IN  r.thrown <=> \E id \in ConversationSet : Anomaly(n, id)
  /\ \A id \in ConversationSet, type \in {NEW_DEVICE, NEW_MEMBER, TYPE_UNVERIFIED} :
       (conversations[id].verification_state = VERIFIED /\ conversations[id].is_verified = "false")
         => LET r == _checkChangeToDegraded(VCur, id, {}, type)
            IN  /\ r.conversations[id].verification_state = VERIFIED
                /\ r.events = <<>>
                /\ r.thrown

C33_Witness ==
  \E id \in ConversationSet :
    /\ conversations[id].verification_state = VERIFIED
    /\ conversations[id].is_verified = "false"
    /\ onMemberJoined(VCur, id, {}).thrown

\* C39: but for the reset of the degradation without affected users, a
\* call of the handler changes the verification state of a conversation
\* only to VERIFIED, when the state is not VERIFIED and is_verified() is
\* exactly true, or from VERIFIED to DEGRADED (types NEW_DEVICE and
\* NEW_MEMBER) or to UNVERIFIED (type UNVERIFIED), when is_verified() is
\* exactly false; otherwise, and so when is_verified() is undefined or the
\* state is DEGRADED already, the state stays as it is.
C39_VerificationStateChanges ==
  \A n \in Notifications, id \in ConversationSet :
    LET r == Notify(VCur, n)
        old == conversations[id]
        new == r.conversations[id]
    IN  /\ new = [old EXCEPT !.verification_state = new.verification_state]
        /\ new.verification_state # old.verification_state =>
             \/ /\ new.verification_state = VERIFIED
                /\ old.is_verified = "true"
             \/ /\ old.verification_state = VERIFIED
                /\ old.is_verified = "false"
                /\ new.verification_state =
                     IF DegradationType(n) \in {NEW_DEVICE, NEW_MEMBER}
                       THEN DEGRADED ELSE UNVERIFIED
        /\ Affected(n, id) /\ CanVerify(n)
             /\ old.verification_state # VERIFIED /\ old.is_verified = "true"
             => new.verification_state = VERIFIED
        /\ Affected(n, id) /\ DegradationType(n) # "none" /\ ~Anomaly(n, id)
             /\ old.verification_state = VERIFIED /\ old.is_verified = "false"
             => new.verification_state # VERIFIED

\* one notification verifies one conversation and leaves alone another
\* whose verification is not known
C39_Witness ==
  \E n \in Notifications, id, other \in ConversationSet :
    /\ Affected(n, id) /\ Affected(n, other)
    /\ conversations[id].verification_state = DEGRADED
    /\ conversations[other].verification_state = UNVERIFIED
    /\ conversations[other].is_verified = "undefined"
    /\ Notify(VCur, n).conversations[id].verification_state = VERIFIED
    /\ Notify(VCur, n).conversations[other].verification_state = UNVERIFIED

\* C40: a call of the handler injects a verification event exactly for the
\* conversations whose state it changes: one all-verified event for a
\* change to VERIFIED, one degraded event with the affected users and the
\* type of degradation for a change to DEGRADED or UNVERIFIED, and none
\* for a conversation it leaves as it is; so at most one event for each
\* conversation, and none when the same call is repeated.
C40_EventPerChange ==
  \A n \in Notifications :
    LET r == Notify(VCur, n)
        again == Notify([r EXCEPT !.events = <<>>, !.thrown = FALSE], n)
    IN  /\ \A id \in ConversationSet :
             LET old == conversations[id].verification_state
                 new == r.conversations[id].verification_state
             IN  EventsOf(r, id) =
                   IF new = old THEN <<>>
                   ELSE IF new = VERIFIED THEN <<buildAllVerified(id)>>
                   ELSE <<buildDegraded(id, AffectedUsers(n, id), DegradationType(n))>>
        /\ again.events = <<>>
        /\ again.conversations = r.conversations

\* one notification changes both conversations, one to VERIFIED and one to
\* DEGRADED
C40_Witness ==
  \E n \in Notifications :
    LET r == Notify(VCur, n)
    IN  /\ Len(r.events) = 2
        /\ r.events[1].type = TYPE_VERIFIED
        /\ r.events[2].type = NEW_DEVICE
        /\ r.events[2].userIds # {}

---------------------------------------------------------------------------
(* ClientAction: the thunks doGetAllClients and doRemoveClient *)

\* the thunks dispatched in one behaviour
MaxDispatches == 2

\* CLIENT_ACTION
CLIENTS_FETCH_START == "CLIENTS_FETCH_START"
CLIENTS_FETCH_SUCCESS == "CLIENTS_FETCH_SUCCESS"
CLIENTS_FETCH_FAILED == "CLIENTS_FETCH_FAILED"
CLIENT_REMOVE_START == "CLIENT_REMOVE_START"
CLIENT_REMOVE_SUCCESS == "CLIENT_REMOVE_SUCCESS"
CLIENT_REMOVE_FAILED == "CLIENT_REMOVE_FAILED"

NoPayload == <<>>

\* ClientActionCreator
startGetAllClients == [type |-> CLIENTS_FETCH_START, payload |-> NoPayload]
successfulGetAllClients(clients) == [type |-> CLIENTS_FETCH_SUCCESS, payload |-> <<clients>>]
failedGetAllClients(error) == [type |-> CLIENTS_FETCH_FAILED, payload |-> <<error>>]
startRemoveClient == [type |-> CLIENT_REMOVE_START, payload |-> NoPayload]
successfulRemoveClient(clientId) == [type |-> CLIENT_REMOVE_SUCCESS, payload |-> <<clientId>>]
failedRemoveClient(error) == [type |-> CLIENT_REMOVE_FAILED, payload |-> <<error>>]

\* the error the backend answers with in the tests, and another one
backendError == [code |-> 403, label |-> "invalid-credentials", message |-> "Authentication failed."]

BackendErrors == {backendError, [code |-> 404, label |-> "not-found", message |-> "Not found."]}

\* what apiClient.client.api.getClients() resolves with
ClientLists == {<<>>, <<"client1">>}

ClientIds == {"clientId"}

CCur == [storeActions |-> storeActions, dispatchedBy |-> dispatchedBy, thunks |-> thunks]

CCommit(s) ==
  /\ storeActions' = s.storeActions
  /\ dispatchedBy' = s.dispatchedBy
  /\ thunks' = s.thunks
  /\ UNCHANGED callVars
  /\ UNCHANGED backendVars
  /\ UNCHANGED verificationVars

\* store.dispatch(action) from inside the thunk
dispatch(s, thunk, action) ==
  [s EXCEPT !.storeActions = Append(@, action), !.dispatchedBy = Append(@, thunk)]

\* the thunk up to its API call
doGetAllClients(s) ==
  dispatch([s EXCEPT !.thunks = Append(@, [thunk |-> "doGetAllClients", clientId |-> "none",
                                           api |-> <<"pending">>, promise |-> <<"pending">>])],
           Len(s.thunks) + 1, startGetAllClients)

doRemoveClient(s, clientId) ==
  dispatch([s EXCEPT !.thunks = Append(@, [thunk |-> "doRemoveClient", clientId |-> clientId,
                                           api |-> <<"pending">>, promise |-> <<"pending">>])],
           Len(s.thunks) + 1, startRemoveClient)

\* the continuations of the API call
getClientsResolved(s, thunk, clients) ==
  [dispatch(s, thunk, successfulGetAllClients(clients)) EXCEPT
     !.thunks[thunk].api = <<"resolved", clients>>,
     !.thunks[thunk].promise = <<"resolved">>]

\* faulty variant: the error is dispatched but not thrown again
getClientsRejected_Swallowed(s, thunk, error) ==
  [dispatch(s, thunk, failedGetAllClients(error)) EXCEPT
     !.thunks[thunk].api = <<"rejected", error>>,
     !.thunks[thunk].promise = <<"resolved">>]

getClientsRejected(s, thunk, error) ==
  [dispatch(s, thunk, failedGetAllClients(error)) EXCEPT
     !.thunks[thunk].api = <<"rejected", error>>,
     !.thunks[thunk].promise = <<"rejected", error>>]

deleteClientResolved(s, thunk) ==
  [dispatch(s, thunk, successfulRemoveClient(s.thunks[thunk].clientId)) EXCEPT
     !.thunks[thunk].api = <<"resolved">>,
     !.thunks[thunk].promise = <<"resolved">>]

deleteClientRejected(s, thunk, error) ==
  [dispatch(s, thunk, failedRemoveClient(error)) EXCEPT
     !.thunks[thunk].api = <<"rejected", error>>,
     !.thunks[thunk].promise = <<"rejected", error>>]

Awaiting(thunk) ==
  {id \in DOMAIN thunks : thunks[id].thunk = thunk /\ thunks[id].api = <<"pending">>}

DoGetAllClients ==
  /\ Len(thunks) < MaxDispatches
  /\ CCommit(doGetAllClients(CCur))

DoRemoveClient ==
  /\ Len(thunks) < MaxDispatches
  /\ \E clientId \in ClientIds : CCommit(doRemoveClient(CCur, clientId))

GetClientsResolved ==
  \E id \in Awaiting("doGetAllClients"), clients \in ClientLists :
    CCommit(getClientsResolved(CCur, id, clients))

GetClientsRejected ==
  \E id \in Awaiting("doGetAllClients"), error \in BackendErrors :
    CCommit(getClientsRejected(CCur, id, error))

DeleteClientResolved ==
  \E id \in Awaiting("doRemoveClient") : CCommit(deleteClientResolved(CCur, id))

DeleteClientRejected ==
  \E id \in Awaiting("doRemoveClient"), error \in BackendErrors :
    CCommit(deleteClientRejected(CCur, id, error))

NextClient ==
  \/ DoGetAllClients
  \/ DoRemoveClient
  \/ GetClientsResolved
  \/ GetClientsRejected
  \/ DeleteClientResolved
  \/ DeleteClientRejected

InitClient == Init /\ isGroup = FALSE

SpecClient == InitClient /\ [][NextClient]_vars

\* the actions of the store the thunk has dispatched, in their order
ActionsOf(id) ==
  LET RECURSIVE pick(_)
      pick(k) == IF k > Len(storeActions) THEN <<>>
                 ELSE IF dispatchedBy[k] = id THEN <<storeActions[k]>> \o pick(k + 1)
                 ELSE pick(k + 1)
  IN  pick(1)

\* the start action of the thunk, and the terminal action and the
\* settlement of its promise that belong to the outcome of the API call
Start(t) == IF t.thunk = "doGetAllClients" THEN startGetAllClients ELSE startRemoveClient

Terminal(t) ==
  IF t.api[1] = "resolved"
    THEN IF t.thunk = "doGetAllClients" THEN successfulGetAllClients(t.api[2])
                                        ELSE successfulRemoveClient(t.clientId)
    ELSE IF t.thunk = "doGetAllClients" THEN failedGetAllClients(t.api[2])
                                        ELSE failedRemoveClient(t.api[2])

====
